---- MODULE Spec2Model ----
(***************************************************************************)
(* Order execution engine of maoyandao-py: the OrderService session state, *)
(* the three order-placement operations and the purchase race of           *)
(* place_market_order, run by an asyncio event loop.                       *)
(*                                                                         *)
(* One behaviour is one service instance: session operations while idle,   *)
(* then one order placement followed to its end.  Every action is one      *)
(* step of one coroutine, from one suspension point to the next, which is  *)
(* the unit the event loop runs atomically.  Time is in milliseconds.      *)
(*                                                                         *)
(* Spec follows the service alone.  RegistrySpec follows the instance      *)
(* cache of OrderServiceWrapper under concurrent calls and its cleanup.    *)
(* PlaceOrderSpec follows one place_order call of the wrapper through the  *)
(* service calls it awaits, and the HTTP endpoints above it.               *)
(* TransportSpec follows the proxy pool and one get or post of the         *)
(* transport.  BuildSpec follows the order builder, with Python's float    *)
(* and int arithmetic computed digit by digit.                             *)
(* SignSpec follows sign_order over varied orders and sessions, SeriesSpec *)
(* the orders one service builds in a row, DiscoverySpec one _fetch_market *)
(* run of the scheduler, StrategySpec the session operations together with *)
(* switch_strategy, RefreshSpec a race with scheduled logins beside it,    *)
(* and CancelSpec a race whose caller is cancelled from outside.           *)
(***************************************************************************)
EXTENDS Integers, Sequences, FiniteSets, TLC

(* ------------------------------ bounds -------------------------------- *)

\* Largest concurrent_tasks argument explored (the code's default is 300).
MaxTasks == 2

\* Latest modification time given to the proxy source.
MaxMtime == 2

\* Number of _get_or_create_service calls followed, each a coroutine.
MaxCallers == 3

\* Number of sign_order calls followed.
MaxSigned == 2

\* Number of orders one service builds in a row.
MaxBuilt == 2

\* Number of switch_strategy calls followed.
MaxSwitches == 2

\* Wall-clock readings (ms) at which the service is exercised.
StartTimes == {30999, 31000}

\* created_at_ts values (unix seconds) of the listing.
CreatedAtChoices == {0, 1}

(* ------------------------- program constants -------------------------- *)

\* order_service.py:566  wait_interval = 30 (seconds)
wait_interval == 30

\* order_service.py:581  delay of attempt i is i * 10 (milliseconds)
stagger_step_ms == 10

\* order_service.py:540  await asyncio.sleep(5)
failure_sleep_s == 5

\* order_service.py:574  await asyncio.sleep(0.001)
poll_sleep_ms == 1

\* order_service.py:518
blocked_message == "purchase blocked: the product is not ready for sale yet"

\* Python's None
NoneVal == "<None>"

(* ------------------------------- values ------------------------------- *)

\* Token strings handed to set_auth_cookies; "" is a present but falsy str.
TokenArgs == {"", "tok"}

\* Raw HTTP answers of the venue to a submission: a JSON object with or
\* without a message, or a body that is not JSON (an HTML error page).
RawResponses ==
  { [status_code |-> 200, is_json |-> TRUE,  message |-> NoneVal],
    [status_code |-> 400, is_json |-> TRUE,  message |-> blocked_message],
    [status_code |-> 400, is_json |-> TRUE,  message |-> "order rejected"],
    [status_code |-> 403, is_json |-> FALSE, message |-> NoneVal] }

\* Answers by which the venue signals abuse detection through the status
\* code, with a JSON body.
AbuseRaws ==
  { [status_code |-> 429, is_json |-> TRUE, message |-> "too many requests"],
    [status_code |-> 403, is_json |-> TRUE, message |-> "forbidden"] }

\* CurlCffiStrategy._format_response: JSON body if it parses, else the text;
\* success is 200 <= status < 300.
format_response(raw) ==
  [ status  |-> raw.status_code,
    data    |-> IF raw.is_json
                  THEN [shape |-> "dict", message |-> raw.message]
                  ELSE [shape |-> "str",  message |-> NoneVal],
    success |-> (200 <= raw.status_code /\ raw.status_code < 300) ]

\* Answers of the venue to the challenge request of get_login_message.
LoginMessageRaws ==
  { [status_code |-> 200, is_json |-> TRUE,  message |-> "sign-in challenge"],
    [status_code |-> 200, is_json |-> TRUE,  message |-> NoneVal],
    [status_code |-> 200, is_json |-> FALSE, message |-> NoneVal],
    [status_code |-> 429, is_json |-> TRUE,  message |-> NoneVal],
    [status_code |-> 403, is_json |-> FALSE, message |-> NoneVal],
    [status_code |-> 500, is_json |-> TRUE,  message |-> NoneVal] }

\* Answers of the venue to the sign-in request of login: the body's wat and
\* wrt entries, NoneVal when the body has none.
SigninRaws ==
  { [status_code |-> 200, is_json |-> TRUE,  message |-> NoneVal,
     wat |-> "wat1", wrt |-> "wrt1"],
    [status_code |-> 200, is_json |-> TRUE,  message |-> NoneVal,
     wat |-> "wat1", wrt |-> NoneVal],
    [status_code |-> 200, is_json |-> TRUE,  message |-> NoneVal,
     wat |-> "",     wrt |-> "wrt1"],
    [status_code |-> 401, is_json |-> TRUE,  message |-> "bad signature",
     wat |-> NoneVal, wrt |-> NoneVal],
    [status_code |-> 200, is_json |-> FALSE, message |-> NoneVal,
     wat |-> NoneVal, wrt |-> NoneVal] }

\* Answers of the venue to the item request of get_item_details: whether the
\* body has salesInfo, its priceWei and its createdAt as unix seconds.
ItemRaws ==
  { [status_code |-> 200, is_json |-> TRUE,  message |-> NoneVal,
     sales_info |-> TRUE,  price_wei |-> "100",   created_at_ts |-> 1],
    [status_code |-> 200, is_json |-> TRUE,  message |-> NoneVal,
     sales_info |-> TRUE,  price_wei |-> NoneVal, created_at_ts |-> 1],
    [status_code |-> 200, is_json |-> TRUE,  message |-> NoneVal,
     sales_info |-> FALSE, price_wei |-> NoneVal, created_at_ts |-> 0],
    [status_code |-> 200, is_json |-> FALSE, message |-> NoneVal,
     sales_info |-> FALSE, price_wei |-> NoneVal, created_at_ts |-> 0],
    [status_code |-> 429, is_json |-> TRUE,  message |-> NoneVal,
     sales_info |-> FALSE, price_wei |-> NoneVal, created_at_ts |-> 0],
    [status_code |-> 403, is_json |-> FALSE, message |-> NoneVal,
     sales_info |-> FALSE, price_wei |-> NoneVal, created_at_ts |-> 0],
    [status_code |-> 500, is_json |-> TRUE,  message |-> NoneVal,
     sales_info |-> FALSE, price_wei |-> NoneVal, created_at_ts |-> 0] }

NoResp == [status |-> 0, data |-> [shape |-> "none", message |-> NoneVal],
           success |-> FALSE]

Pending     == [kind |-> "pending",  err |-> "none", resp |-> NoResp]
Returned(r) == [kind |-> "response", err |-> "none", resp |-> r]
Raised(e)   == [kind |-> "error",    err |-> e,      resp |-> NoResp]

\* get_item_details: return data, with createdAtTs added
Item(r, price_wei, created_at_ts) ==
  [kind |-> "item", err |-> "none", resp |-> r,
   price_wei |-> price_wei, created_at_ts |-> created_at_ts]

\* get_markets: return markets, a list of n entries
Markets(n) == [kind |-> "markets", err |-> "none", resp |-> NoResp, count |-> n]

(* ------------------------------- state -------------------------------- *)

VARIABLES
  auth_tokens,   \* OrderService.auth_tokens: [wat, wrt]
  cookies,       \* CurlCffiStrategy.cookies: name -> value
  now,           \* wall clock, ms
  pc,            \* where the caller's coroutine is
  call,          \* the call in progress or last made: op, flag, parameters, time
  pollWake,      \* deadline of the cooldown loop's 1 ms sleep
  raceStart,     \* time the attempts were created, -1 before
  tasks,         \* the attempts: index -> [st, delay, wakeAt, cancelledIn, outcome]
  posts,         \* every request_strategy.post issued, in order
  events,        \* every submission answer or transport failure, in order
  result,        \* what that call returned or raised
  service_cache, \* OrderServiceWrapper._service_cache, in insertion order
  services,      \* the OrderService instances constructed by the wrapper
  callers,       \* the _get_or_create_service calls: where each one is
  cleaner,       \* the cleanup call: where it is and what it has destroyed
  wpc,           \* where the place_order call of the wrapper is
  request,       \* the OrderRequest it serves
  order_response, \* the OrderResponse it returned
  http_status,   \* status code the order endpoint answered with, 0 before
  proxy_file,    \* the proxy source on disk: [exists, mtime, lines]
  _proxies,      \* ProxyManager._proxies
  _last_modified, \* ProxyManager._last_modified
  reading,       \* what the last read of the pool did
  use_proxy,     \* CurlCffiStrategy.default_options['use_proxy']
  transfer,      \* the transport's get/post call in progress or last made
  build,         \* the last order built or timestamp taken, and from what
  signed,        \* every sign_order call made, in order
  built,       \* the orders one service built, in order
  discovery,   \* the _fetch_market run in progress or last made
  strategy,    \* strategy_type, strategy_config and the transports made so far
  refresh      \* the login running beside the calls of the service

\* The transport on its own: the proxy pool, its source and one get/post.
transport_vars == <<proxy_file, _proxies, _last_modified, reading, use_proxy,
                    transfer>>

\* The state around the followed service: the wrapper, the endpoints, the
\* transport on its own and the order builder on its own, which no step of
\* the service touches.
wrapper_vars == <<service_cache, services, callers, cleaner, wpc, request,
                  order_response, http_status, transport_vars, build, signed, built, discovery, strategy, refresh>>

\* The state of the one service instance whose operations are followed.
service_vars == <<auth_tokens, cookies, now, pc, call, pollWake, raceStart,
                  tasks, posts, events, result>>

vars == <<service_vars, wrapper_vars>>

\* CurlCffiStrategy.__init__: self.cookies = {}
EmptyJar == [n \in {} |-> ""]

\* no attempt exists outside a race
NoTasks == [i \in {} |-> Pending]

NoCall == [op |-> "none", confirm |-> FALSE, concurrent_tasks |-> 0,
           created_at_ts |-> 0, build_ok |-> TRUE, called_at |-> -1]

\* OrderServiceWrapper.__init__: self._service_cache = {}; no call is running.
CallerIds == 1..MaxCallers
NoServices == [c \in {} |-> [key |-> "", tokens |-> [wat |-> NoneVal, wrt |-> NoneVal]]]
NoCaller == [pc |-> "none", private_key |-> "", service |-> 0]
IdleCleaner == [pc |-> "none", pos |-> 0, used |-> 0, at_call |-> {},
                destroyed |-> {}, failed |-> {}]
NoRequest == [order_type |-> "none", price_wei |-> NoneVal,
              created_at_ts |-> 0, amount |-> NoneVal,
              confirm_real_order |-> FALSE]
NoOrderResponse == [success |-> FALSE, error_code |-> NoneVal, given |-> FALSE]

\* No proxy source on disk yet; mtime -1 stands for "never written".
NoSource == [exists |-> FALSE, mtime |-> -1, lines |-> <<>>]
NoReading == [op |-> "none", proxy |-> <<>>, count |-> 0, available |-> FALSE,
              pool |-> <<>>, parsed |-> FALSE, prev_parsed |-> FALSE,
              consecutive |-> FALSE, dirty |-> FALSE, ever_parsed |-> FALSE,
              recorded |-> -1]
NoBuild == [op |-> "none"]
NoDiscovery == [pc |-> "idle"]

\* no login runs beside the service; answers are the token pairs the
\* sign-in answers have carried so far
NoRefresh == [pc |-> "idle", answers |-> {}]

\* OrderService.__init__ and init(): strategy_type 'curl_cffi', the
\* strategy_config of the defaults, one transport, its session open.
\* sessions[n] is the session of the n-th transport made: "open" after
\* init(), "none" before init() and after destroy(); current is the one
\* self.request_strategy refers to.
InitialConfig ==
  [k \in {"timeout", "use_proxy", "proxy_file"} |->
     IF k = "timeout" THEN "15" ELSE IF k = "use_proxy" THEN "True"
     ELSE "proxies.txt"]
InitialStrategy ==
  [type |-> "curl_cffi", config |-> InitialConfig, current |-> 1,
   sessions |-> <<"open">>, last |-> "none",
   asked |-> [type |-> "curl_cffi", config |-> InitialConfig],
   before |-> [type |-> "curl_cffi", config |-> InitialConfig,
               current |-> 1]]
NoTransfer == [pc |-> "idle", enabled |-> FALSE, pool |-> <<>>,
               proxy |-> <<>>, requests |-> 0, result |-> Pending]

Init ==
  /\ auth_tokens = [wat |-> NoneVal, wrt |-> NoneVal]
  /\ cookies = EmptyJar
  /\ now \in StartTimes
  /\ pc = "idle"
  /\ call = NoCall
  /\ pollWake = -1
  /\ raceStart = -1
  /\ tasks = NoTasks
  /\ posts = <<>>
  /\ events = <<>>
  /\ result = Pending
  /\ service_cache = <<>>
  /\ services = NoServices
  /\ callers = [c \in CallerIds |-> NoCaller]
  /\ cleaner = IdleCleaner
  /\ wpc = "none"
  /\ request = NoRequest
  /\ order_response = NoOrderResponse
  /\ http_status = 0
  /\ proxy_file = NoSource
  /\ _proxies = <<>>
  /\ _last_modified = 0
  /\ reading = NoReading
  /\ use_proxy = TRUE
  /\ transfer = NoTransfer
  /\ build = NoBuild
  /\ signed = <<>>
  /\ built = <<>>
  /\ discovery = NoDiscovery
  /\ strategy = InitialStrategy
  /\ refresh = NoRefresh

(* ------------------------------ session ------------------------------- *)

\* Python truthiness of a token: None and "" are falsy.
Truthy(t) == t # NoneVal /\ t # ""

\* OrderService.is_authenticated
is_authenticated_wrong(tok) == Truthy(tok.wat) \/ Truthy(tok.wrt)
is_authenticated(tok) == Truthy(tok.wat) /\ Truthy(tok.wrt)

\* CurlCffiStrategy.set_cookies: dict.update
set_cookies(jar, new) ==
  [n \in (DOMAIN jar) \cup (DOMAIN new) |->
     IF n \in DOMAIN new THEN new[n] ELSE jar[n]]

AuthCookies(wat, wrt) ==
  [n \in {"msu_wat", "msu_wrt"} |-> IF n = "msu_wat" THEN wat ELSE wrt]

\* OrderService.set_auth_cookies
set_auth_cookies_tokens_only(wat, wrt) ==
  /\ pc = "idle"
  /\ auth_tokens' = [auth_tokens EXCEPT !.wat = wat, !.wrt = wrt]
  /\ UNCHANGED <<cookies, now, pc, call, pollWake, raceStart, tasks, posts,
                 events, result>>
  /\ UNCHANGED wrapper_vars
set_auth_cookies(wat, wrt) ==
  /\ pc = "idle"
  /\ cookies' = set_cookies(cookies, AuthCookies(wat, wrt))
  /\ auth_tokens' = [auth_tokens EXCEPT !.wat = wat, !.wrt = wrt]
  /\ UNCHANGED <<now, pc, call, pollWake, raceStart, tasks, posts, events, result>>
  /\ UNCHANGED wrapper_vars

\* OrderService.clear_auth_tokens
clear_auth_tokens ==
  /\ pc = "idle"
  /\ auth_tokens' = [wat |-> NoneVal, wrt |-> NoneVal]
  /\ UNCHANGED <<cookies, now, pc, call, pollWake, raceStart, tasks, posts, events, result>>
  /\ UNCHANGED wrapper_vars

\* OrderService.clear_auth_cookies
clear_auth_cookies_only ==
  /\ pc = "idle"
  /\ cookies' = EmptyJar
  /\ UNCHANGED <<auth_tokens, now, pc, call, pollWake, raceStart, tasks, posts,
                 events, result>>
  /\ UNCHANGED wrapper_vars
clear_auth_cookies ==
  /\ pc = "idle"
  /\ cookies' = EmptyJar
  /\ auth_tokens' = [wat |-> NoneVal, wrt |-> NoneVal]
  /\ UNCHANGED <<now, pc, call, pollWake, raceStart, tasks, posts, events, result>>
  /\ UNCHANGED wrapper_vars

(* -------------------------------- login ------------------------------- *)

\* A session operation called by its name alone.
SessionCall(op) == [NoCall EXCEPT !.op = op]

\* get_login_message after its post: the message of a successful JSON
\* answer; json.loads on a text body and data['message'] on a body without
\* one raise; 429, 403 and any other status raise.
login_message_outcome(response) ==
  IF response.success
    THEN IF response.data.shape # "dict" THEN Raised("JSONDecodeError")
         ELSE IF response.data.message = NoneVal THEN Raised("KeyError")
         ELSE Returned(response)
    ELSE IF response.status = 429 THEN Raised("RateLimited")
         ELSE IF response.status = 403 THEN Raised("RequestBlocked")
         ELSE Raised("RequestFailed")

\* login, lines 464-468: the body is a dict whose wat and wrt are both truthy.
\* The status of the answer is not looked at.
carries_either_token(raw) ==
  /\ format_response(raw).data.shape = "dict"
  /\ Truthy(raw.wat) \/ Truthy(raw.wrt)
carries_tokens(raw) ==
  /\ format_response(raw).data.shape = "dict"
  /\ Truthy(raw.wat) /\ Truthy(raw.wrt)

\* login, lines 470-483: the tokens of the answer replace the stored ones.
login_tokens_swapped(raw) == [wat |-> raw.wrt, wrt |-> raw.wat]
login_tokens(raw) == [wat |-> raw.wat, wrt |-> raw.wrt]

\* OrderService.login up to the post of get_login_message
login ==
  /\ pc = "idle"
  /\ pc' = "login_message"
  /\ call' = SessionCall("login")
  /\ result' = Pending
  /\ UNCHANGED <<auth_tokens, cookies, now, pollWake, raceStart, tasks, posts,
                 events>>
  /\ UNCHANGED wrapper_vars

\* get_login_message answered: it raises, which ends login, or the message
\* is signed and the sign-in post goes out.
login_message_response(raw) ==
  /\ pc = "login_message"
  /\ LET out == login_message_outcome(format_response(raw))
     IN IF out.kind = "error"
          THEN pc' = "idle" /\ result' = out
          ELSE pc' = "login_signin" /\ result' = Pending
  /\ UNCHANGED <<auth_tokens, cookies, now, call, pollWake, raceStart, tasks,
                 posts, events>>
  /\ UNCHANGED wrapper_vars

\* get_login_message: the post fails at network level
login_message_net_error ==
  /\ pc = "login_message"
  /\ pc' = "idle"
  /\ result' = Raised("NetworkError")
  /\ UNCHANGED <<auth_tokens, cookies, now, call, pollWake, raceStart, tasks,
                 posts, events>>
  /\ UNCHANGED wrapper_vars

\* login, lines 459-492: the sign-in answer; tokens and cookies are stored
\* when the body carries both, anything else is logged, and the response is
\* returned in every case.
login_signin_response(raw) ==
  /\ pc = "login_signin"
  /\ IF carries_tokens(raw)
       THEN /\ auth_tokens' = login_tokens(raw)
            /\ cookies' = set_cookies(cookies,
                                      AuthCookies(raw.wat, raw.wrt))
       ELSE UNCHANGED <<auth_tokens, cookies>>
  /\ pc' = "idle"
  /\ result' = Returned(format_response(raw))
  /\ UNCHANGED <<now, call, pollWake, raceStart, tasks, posts, events>>
  /\ UNCHANGED wrapper_vars

\* login, lines 493-495: the sign-in post fails at network level
login_signin_net_error ==
  /\ pc = "login_signin"
  /\ pc' = "idle"
  /\ result' = Raised("NetworkError")
  /\ UNCHANGED <<auth_tokens, cookies, now, call, pollWake, raceStart, tasks,
                 posts, events>>
  /\ UNCHANGED wrapper_vars

(* ------------------------------- lookups ------------------------------ *)

\* get_item_details after its get
item_outcome(raw) ==
  LET response == format_response(raw)
  IN IF response.success
       THEN IF response.data.shape # "dict" THEN Raised("JSONDecodeError")
            ELSE IF ~raw.sales_info THEN Raised("KeyError")
            ELSE Item(response, raw.price_wei, raw.created_at_ts)
       ELSE IF response.status = 429 THEN Raised("RateLimited")
            ELSE IF response.status = 403 THEN Raised("RequestBlocked")
            ELSE Raised("RequestFailed")

\* OrderService.get_item_details up to its get
get_item_details ==
  /\ pc = "idle"
  /\ pc' = "lookup"
  /\ call' = SessionCall("lookup")
  /\ result' = Pending
  /\ UNCHANGED <<auth_tokens, cookies, now, pollWake, raceStart, tasks, posts,
                 events>>
  /\ UNCHANGED wrapper_vars

item_response(raw) ==
  /\ pc = "lookup"
  /\ pc' = "idle"
  /\ result' = item_outcome(raw)
  /\ UNCHANGED <<auth_tokens, cookies, now, call, pollWake, raceStart, tasks,
                 posts, events>>
  /\ UNCHANGED wrapper_vars

item_net_error ==
  /\ pc = "lookup"
  /\ pc' = "idle"
  /\ result' = Raised("NetworkError")
  /\ UNCHANGED <<auth_tokens, cookies, now, call, pollWake, raceStart, tasks,
                 posts, events>>
  /\ UNCHANGED wrapper_vars

\* OrderService.get_markets up to its post
get_markets ==
  /\ pc = "idle"
  /\ pc' = "listing"
  /\ call' = SessionCall("listing")
  /\ result' = Pending
  /\ UNCHANGED <<auth_tokens, cookies, now, pollWake, raceStart, tasks, posts,
                 events>>
  /\ UNCHANGED wrapper_vars

\* get_markets answered, or its post failed: every exception is logged and
\* the markets collected so far are returned, none unless the answer is a
\* successful JSON object.
markets_response(raw) ==
  /\ pc = "listing"
  /\ pc' = "idle"
  /\ \E n \in 0..1 :
       /\ n > 0 => format_response(raw).success
                     /\ format_response(raw).data.shape = "dict"
       /\ result' = Markets(n)
  /\ UNCHANGED <<auth_tokens, cookies, now, call, pollWake, raceStart, tasks,
                 posts, events>>
  /\ UNCHANGED wrapper_vars

markets_net_error ==
  /\ pc = "listing"
  /\ pc' = "idle"
  /\ result' = Markets(0)
  /\ UNCHANGED <<auth_tokens, cookies, now, call, pollWake, raceStart, tasks,
                 posts, events>>
  /\ UNCHANGED wrapper_vars

(* ------------------------- order placement ---------------------------- *)

\* The header names the three submission operations pass to post
\* (order_service.py:510-516, 635-642, 685-692).
order_headers ==
  {"accept", "accept-language", "content-type", "origin", "referer"}

\* OrderService.get_auth_headers: the header names it returns.  No operation
\* of the service calls it.
get_auth_headers(tok) ==
  (IF Truthy(tok.wat) THEN {"Authorization"} ELSE {})
    \cup (IF Truthy(tok.wrt) THEN {"X-Refresh-Token"} ELSE {})
    \cup {"x-msu-address"}

\* CurlCffiStrategy.post: request_headers = {'Content-Type': ...} updated
\* with the caller's headers.
request_headers(headers) == {"Content-Type"} \cup headers

\* request_strategy.post as the service sees it: the request goes out with
\* the cookie jar of that moment (curl_cffi_strategy.py:132).
post(url, task) ==
  Append(posts, [url |-> url, task |-> task, at |-> now, cookies |-> cookies,
                 headers |-> request_headers(order_headers)])

\* place_market_order: created_at_ms = int(params['created_at_ts'] * 1000)
created_at_ms(created_at_ts) == created_at_ts * 1000

\* place_market_order: the loop's exit test
\*   int(time.time() * 1000) - created_at_ms >= int(wait_interval * 1000)
cooldown_over_none(t, created_at_ts) == TRUE
cooldown_over(t, created_at_ts) ==
  t - created_at_ms(created_at_ts) >= wait_interval * 1000

\* place_market_order: the delay handed to attempt i, i * 10
task_delay_short(i) == i
task_delay(i) == i * stagger_step_ms

NewTask(i) == [st |-> "created", delay |-> task_delay(i), wakeAt |-> -1,
               cancelledIn |-> "none", outcome |-> Pending]

\* place_market_order after the cooldown: create_task for i in
\* range(concurrent_tasks), then asyncio.wait, which raises ValueError on an
\* empty task list; that error passes through the except clause to the caller.
launch_race(n) ==
  /\ raceStart' = now
  /\ tasks' = [i \in 0..(n - 1) |-> NewTask(i)]
  /\ pollWake' = -1
  /\ IF n = 0
       THEN pc' = "raised" /\ result' = Raised("ValueError")
       ELSE pc' = "waiting" /\ result' = Pending

\* One pass of the while loop: leave it and launch, or sleep 1 ms.
cooldown_step(c) ==
  IF cooldown_over(now, c.created_at_ts)
    THEN launch_race(c.concurrent_tasks)
    ELSE /\ pc' = "polling"
         /\ pollWake' = now + poll_sleep_ms
         /\ result' = Pending
         /\ UNCHANGED <<raceStart, tasks>>

\* The two checks every placement operation starts with.
Rejected_no_flag(confirm) == ~is_authenticated(auth_tokens)
Rejected(confirm) == ~confirm \/ ~is_authenticated(auth_tokens)
Rejection(confirm) ==
  IF ~confirm THEN Raised("SecurityCheckFailed")
              ELSE Raised("AuthenticationRequired")

\* OrderService.place_market_order, up to its first suspension
place_market_order(confirm, n, created_at_ts, build_ok) ==
  /\ pc = "idle"
  /\ call' = [op |-> "market", confirm |-> confirm, concurrent_tasks |-> n,
              created_at_ts |-> created_at_ts, build_ok |-> build_ok,
              called_at |-> now]
  /\ IF Rejected(confirm)
       THEN /\ pc' = "raised"
            /\ result' = Rejection(confirm)
            /\ UNCHANGED <<pollWake, raceStart, tasks>>
       ELSE cooldown_step(call')
  /\ UNCHANGED <<auth_tokens, cookies, now, posts, events>>
  /\ UNCHANGED wrapper_vars

\* place_market_order resumed from asyncio.sleep(0.001)
poll_wake ==
  /\ pc = "polling"
  /\ now >= pollWake
  /\ cooldown_step(call)
  /\ UNCHANGED <<auth_tokens, cookies, now, call, posts, events>>
  /\ UNCHANGED wrapper_vars

\* place_limit_order / place_sell_order: checks, order built and signed,
\* one post; a build error is raised before the try block.
place_single(op, url, confirm, build_ok) ==
  /\ pc = "idle"
  /\ call' = [op |-> op, confirm |-> confirm, concurrent_tasks |-> 0,
              created_at_ts |-> 0, build_ok |-> build_ok, called_at |-> now]
  /\ IF Rejected(confirm)
       THEN pc' = "raised" /\ result' = Rejection(confirm) /\ UNCHANGED posts
       ELSE IF ~build_ok
         THEN pc' = "raised" /\ result' = Raised("ValueError") /\ UNCHANGED posts
         ELSE pc' = "posting" /\ result' = Pending /\ posts' = post(url, -1)
  /\ UNCHANGED <<auth_tokens, cookies, now, pollWake, raceStart, tasks, events>>
  /\ UNCHANGED wrapper_vars

\* OrderService.place_limit_order
place_limit_order(confirm, build_ok) ==
  place_single("limit", "offer", confirm, build_ok)

\* OrderService.place_sell_order
place_sell_order(confirm, build_ok) ==
  place_single("sell", "register", confirm, build_ok)

\* place_limit_order / place_sell_order: return response
single_response_logout(raw) ==
  /\ pc = "posting"
  /\ pc' = "returned"
  /\ result' = Returned(format_response(raw))
  /\ auth_tokens' = IF format_response(raw).success
                      THEN auth_tokens
                      ELSE [wat |-> NoneVal, wrt |-> NoneVal]
  /\ UNCHANGED <<cookies, now, call, pollWake, raceStart, tasks, posts, events>>
  /\ UNCHANGED wrapper_vars
single_response(raw) ==
  /\ pc = "posting"
  /\ pc' = "returned"
  /\ result' = Returned(format_response(raw))
  /\ UNCHANGED <<auth_tokens, cookies, now, call, pollWake, raceStart, tasks,
                 posts, events>>
  /\ UNCHANGED wrapper_vars

\* place_limit_order / place_sell_order: except Exception ... raise e
single_net_error ==
  /\ pc = "posting"
  /\ pc' = "raised"
  /\ result' = Raised("NetworkError")
  /\ UNCHANGED <<auth_tokens, cookies, now, call, pollWake, raceStart, tasks,
                 posts, events>>
  /\ UNCHANGED wrapper_vars

(* ---------------------------- the attempts ---------------------------- *)

TaskIds == DOMAIN tasks

Sleeping(t) == t.st \in {"staggering", "cooldown"}
Live(t)     == t.st \in {"created", "staggering", "inflight", "cooldown"}
Done(t)     == t.st = "done"

\* The loop runs the first step of every created task, in creation order,
\* before it polls I/O or timers again.
AllStarted == \A i \in TaskIds : tasks[i].st # "created"

\* The loop's timer heap: sleeps end in deadline order, never early.
TimerDue(i) ==
  /\ AllStarted
  /\ tasks[i].wakeAt <= now
  /\ \A j \in TaskIds : Sleeping(tasks[j]) => tasks[j].wakeAt >= tasks[i].wakeAt

\* _single_purchase_task: await self.request_strategy.post(url, payload, ...)
submit(i) ==
  /\ tasks' = [tasks EXCEPT ![i].st = "inflight"]
  /\ posts' = post("buy", i)

\* _single_purchase_task from its start to its first suspension: the order is
\* built and signed before the try block, then the stagger sleep if delay > 0,
\* else the post at once.
start_task(i) ==
  /\ i \in TaskIds
  /\ tasks[i].st = "created"
  /\ \A j \in TaskIds : j < i => tasks[j].st # "created"
  /\ IF ~call.build_ok
       THEN /\ tasks' = [tasks EXCEPT ![i].st = "done",
                                      ![i].outcome = Raised("ValueError")]
            /\ UNCHANGED posts
       ELSE IF tasks[i].delay > 0
         THEN /\ tasks' = [tasks EXCEPT ![i].st = "staggering",
                                        ![i].wakeAt = now + tasks[i].delay]
              /\ UNCHANGED posts
         ELSE submit(i)
  /\ UNCHANGED <<auth_tokens, cookies, now, pc, call, pollWake, raceStart,
                 events, result>>
  /\ UNCHANGED wrapper_vars

\* _single_purchase_task resumed from asyncio.sleep(delay / 1000)
stagger_wake(i) ==
  /\ i \in TaskIds
  /\ tasks[i].st = "staggering"
  /\ TimerDue(i)
  /\ submit(i)
  /\ UNCHANGED <<auth_tokens, cookies, now, pc, call, pollWake, raceStart,
                 events, result>>
  /\ UNCHANGED wrapper_vars

\* _single_purchase_task, lines 528-535: data = response['data'];
\* message = data.get('message') needs a dict; the response is returned
\* unless the message is the blocked one.
attempt_outcome(response) ==
  IF response.data.shape # "dict"
    THEN Raised("AttributeError")
    ELSE IF response.data.message # blocked_message
      THEN Returned(response)
      ELSE Raised("Blocked")

\* except Exception: await asyncio.sleep(5)
fail_attempt_no_sleep(i, e) ==
  [tasks EXCEPT ![i].st = "done", ![i].outcome = e]
fail_attempt_short(i, e) ==
  [tasks EXCEPT ![i].st = "cooldown",
                ![i].wakeAt = now + failure_sleep_s,
                ![i].outcome = e]
fail_attempt(i, e) ==
  [tasks EXCEPT ![i].st = "cooldown",
                ![i].wakeAt = now + failure_sleep_s * 1000,
                ![i].outcome = e]

\* The venue answers attempt i's post.
buy_response(i, raw) ==
  /\ i \in TaskIds
  /\ tasks[i].st = "inflight"
  /\ AllStarted
  /\ LET response == format_response(raw)
         out      == attempt_outcome(response)
     IN /\ events' = Append(events, [task |-> i, kind |-> "response",
                                     at |-> now, resp |-> response])
        /\ tasks' = IF out.kind = "response"
                      THEN [tasks EXCEPT ![i].st = "done", ![i].outcome = out]
                      ELSE fail_attempt(i, out)
  /\ UNCHANGED <<auth_tokens, cookies, now, pc, call, pollWake, raceStart,
                 posts, result>>
  /\ UNCHANGED wrapper_vars

\* Attempt i's post fails at network level: the transport re-raises.
buy_net_error(i) ==
  /\ i \in TaskIds
  /\ tasks[i].st = "inflight"
  /\ AllStarted
  /\ events' = Append(events, [task |-> i, kind |-> "neterror",
                               at |-> now, resp |-> NoResp])
  /\ tasks' = fail_attempt(i, Raised("NetworkError"))
  /\ UNCHANGED <<auth_tokens, cookies, now, pc, call, pollWake, raceStart,
                 posts, result>>
  /\ UNCHANGED wrapper_vars

\* _single_purchase_task resumed from asyncio.sleep(5): raise e
cooldown_wake_retry(i) ==
  /\ i \in TaskIds
  /\ tasks[i].st = "cooldown"
  /\ TimerDue(i)
  /\ tasks' = [tasks EXCEPT ![i].st = "inflight", ![i].outcome = Pending]
  /\ posts' = post("buy", i)
  /\ UNCHANGED <<auth_tokens, cookies, now, pc, call, pollWake, raceStart,
                 events, result>>
  /\ UNCHANGED wrapper_vars
cooldown_wake(i) ==
  /\ i \in TaskIds
  /\ tasks[i].st = "cooldown"
  /\ TimerDue(i)
  /\ tasks' = [tasks EXCEPT ![i].st = "done"]
  /\ UNCHANGED <<auth_tokens, cookies, now, pc, call, pollWake, raceStart,
                 posts, events, result>>
  /\ UNCHANGED wrapper_vars

(* --------------------------- the coordinator -------------------------- *)

\* task.cancel(): a task that is not done is marked for cancellation; the
\* CancelledError reaches it at its next step.
task_cancel(t) ==
  IF Live(t) THEN [t EXCEPT !.st = "cancelling", !.cancelledIn = t.st] ELSE t

\* for task in pending: task.cancel()
cancel_pending(ts) == [i \in DOMAIN ts |-> task_cancel(ts[i])]

\* for task in tasks: if not task.done(): task.cancel()
cancel_not_done(ts) == [i \in DOMAIN ts |-> task_cancel(ts[i])]

DoneSet == {i \in TaskIds : Done(tasks[i])}

\* place_market_order resumed from asyncio.wait(FIRST_COMPLETED): done holds
\* every task finished by now, pending the rest; the pending are cancelled and
\* list(done)[0], an element of a set, is awaited: its response is returned,
\* its exception goes through the except clause to the caller.
wait_returns_no_cancel ==
  /\ pc = "waiting"
  /\ AllStarted
  /\ \E first \in DoneSet :
       /\ result' = tasks[first].outcome
       /\ pc' = IF tasks[first].outcome.kind = "response"
                  THEN "returned" ELSE "raised"
  /\ UNCHANGED <<auth_tokens, cookies, now, call, pollWake, raceStart, tasks,
                 posts, events>>
  /\ UNCHANGED wrapper_vars
wait_returns_cancel_late ==
  /\ pc = "waiting"
  /\ AllStarted
  /\ \E first \in DoneSet :
       /\ result' = tasks[first].outcome
       /\ IF tasks[first].outcome.kind = "response"
            THEN /\ pc' = "returned"
                 /\ tasks' = cancel_pending(tasks)
            ELSE /\ pc' = "raised"
                 /\ tasks' = tasks
  /\ UNCHANGED <<auth_tokens, cookies, now, call, pollWake, raceStart,
                 posts, events>>
  /\ UNCHANGED wrapper_vars
wait_returns ==
  /\ pc = "waiting"
  /\ AllStarted
  /\ \E first \in DoneSet :
       /\ result' = tasks[first].outcome
       /\ IF tasks[first].outcome.kind = "response"
            THEN /\ pc' = "returned"
                 /\ tasks' = cancel_pending(tasks)
            ELSE /\ pc' = "raised"
                 /\ tasks' = cancel_not_done(cancel_pending(tasks))
  /\ UNCHANGED <<auth_tokens, cookies, now, call, pollWake, raceStart,
                 posts, events>>
  /\ UNCHANGED wrapper_vars

\* A cancelled attempt's next step: CancelledError is raised at its
\* suspension point and is not caught by `except Exception`.
deliver_cancel(i) ==
  /\ i \in TaskIds
  /\ tasks[i].st = "cancelling"
  /\ tasks' = [tasks EXCEPT ![i].st = "cancelled"]
  /\ UNCHANGED <<auth_tokens, cookies, now, pc, call, pollWake, raceStart,
                 posts, events, result>>
  /\ UNCHANGED wrapper_vars

\* The task running place_market_order is cancelled from outside while it
\* waits in asyncio.wait: CancelledError is raised at the await; it is a
\* BaseException, which `except Exception` (line 593) does not catch, and
\* asyncio.wait leaves the tasks it was given alone.
cancel_call ==
  /\ pc = "waiting"
  /\ AllStarted
  /\ pc' = "cancelled"
  /\ result' = Raised("CancelledError")
  /\ UNCHANGED <<auth_tokens, cookies, now, call, pollWake, raceStart, tasks,
                 posts, events>>
  /\ UNCHANGED wrapper_vars

(* ---------------------------- the registry ---------------------------- *)

\* The private keys the wrapper is called with.
Credentials == {"key-a", "key-b"}

\* cache_key = hashlib.sha256(private_key.encode()).hexdigest()[:16]
cache_key(private_key) ==
  IF private_key = "key-a" THEN "8f0e2d6c41b7a953" ELSE "1c9a74e2b05d63f8"

\* dict operations on _service_cache, a dict in insertion order
CacheKeys == {service_cache[n].key : n \in 1..Len(service_cache)}
CacheGet(k) ==
  service_cache[CHOOSE n \in 1..Len(service_cache) : service_cache[n].key = k].service
cache_put(k, srv) ==
  IF k \in CacheKeys
    THEN [n \in 1..Len(service_cache) |->
            IF service_cache[n].key = k
              THEN [key |-> k, service |-> srv] ELSE service_cache[n]]
    ELSE Append(service_cache, [key |-> k, service |-> srv])

registry_frame == <<service_vars, wpc, request, order_response, http_status,
                    transport_vars, build, signed, built, discovery, strategy, refresh>>

\* _get_or_create_service up to its first suspension: a cached instance is
\* returned at once; else OrderService(private_key, ...) is constructed,
\* init() creates the session and login() runs up to the challenge post.
\* The instance is named after the call that constructs it.
get_or_create_service(c, private_key) ==
  /\ callers[c].pc = "none"
  /\ LET k == cache_key(private_key)
     IN IF k \in CacheKeys
          THEN /\ callers' = [callers EXCEPT ![c] =
                    [pc |-> "returned", private_key |-> private_key,
                     service |-> CacheGet(k)]]
               /\ UNCHANGED services
          ELSE /\ services' = services @@
                    (c :> [key |-> k,
                           tokens |-> [wat |-> NoneVal, wrt |-> NoneVal]])
               /\ callers' = [callers EXCEPT ![c] =
                    [pc |-> "login_message", private_key |-> private_key,
                     service |-> 0]]
  /\ UNCHANGED <<service_cache, cleaner>>
  /\ UNCHANGED registry_frame

\* await service.login(), wrapper line 55: the challenge is answered.  An
\* exception of get_login_message leaves login and _get_or_create_service.
create_login_message_response(c, raw) ==
  /\ callers[c].pc = "login_message"
  /\ callers' = [callers EXCEPT ![c].pc =
       IF login_message_outcome(format_response(raw)).kind = "error"
         THEN "raised" ELSE "login_signin"]
  /\ UNCHANGED <<service_cache, services, cleaner>>
  /\ UNCHANGED registry_frame

create_login_message_net_error(c) ==
  /\ callers[c].pc = "login_message"
  /\ callers' = [callers EXCEPT ![c].pc = "raised"]
  /\ UNCHANGED <<service_cache, services, cleaner>>
  /\ UNCHANGED registry_frame

\* login returns, with or without tokens stored; then
\* self._service_cache[cache_key] = service and the cached value is returned.
create_login_signin_response(c, raw) ==
  /\ callers[c].pc = "login_signin"
  /\ services' = [services EXCEPT ![c].tokens =
       IF carries_tokens(raw) THEN login_tokens(raw) ELSE @]
  /\ service_cache' = cache_put(cache_key(callers[c].private_key), c)
  /\ callers' = [callers EXCEPT ![c].pc = "returned", ![c].service = c]
  /\ UNCHANGED cleaner
  /\ UNCHANGED registry_frame

\* the sign-in post fails at network level: login raises
create_login_signin_net_error(c) ==
  /\ callers[c].pc = "login_signin"
  /\ callers' = [callers EXCEPT ![c].pc = "raised"]
  /\ UNCHANGED <<service_cache, services, cleaner>>
  /\ UNCHANGED registry_frame

\* One turn of `for service in self._service_cache.values()` from position
\* pos: the iterator raises RuntimeError when the dict has changed size,
\* yields the value now stored at the next position, whose destroy() is
\* awaited, or ends, and self._service_cache.clear() follows.
cleanup_next(cl) ==
  IF Len(service_cache) # cl.used
    THEN /\ cleaner' = [cl EXCEPT !.pc = "raised"]
         /\ UNCHANGED service_cache
    ELSE IF cl.pos < cl.used
      THEN /\ cleaner' = [cl EXCEPT
                 !.pc = "destroying", !.pos = cl.pos + 1,
                 !.destroyed = @ \cup {service_cache[cl.pos + 1].service}]
           /\ UNCHANGED service_cache
      ELSE /\ cleaner' = [cl EXCEPT !.pc = "returned"]
           /\ service_cache' = <<>>

\* OrderServiceWrapper.cleanup up to its first suspension
cleanup ==
  /\ cleaner.pc = "none"
  /\ cleanup_next([cleaner EXCEPT
       !.used = Len(service_cache),
       !.at_call = {service_cache[n].service : n \in 1..Len(service_cache)}])
  /\ UNCHANGED <<services, callers>>
  /\ UNCHANGED registry_frame

\* await service.destroy() is over: it returned, or raised an Exception,
\* which is printed; the loop goes on.
cleanup_resume(ok) ==
  /\ cleaner.pc = "destroying"
  /\ cleanup_next([cleaner EXCEPT !.failed =
       IF ok THEN @ ELSE @ \cup {service_cache[cleaner.pos].service}])
  /\ UNCHANGED <<services, callers>>
  /\ UNCHANGED registry_frame

RegistryNext ==
  \/ \E c \in CallerIds, k \in Credentials : get_or_create_service(c, k)
  \/ \E c \in CallerIds, raw \in LoginMessageRaws :
        create_login_message_response(c, raw)
  \/ \E c \in CallerIds : create_login_message_net_error(c)
  \/ \E c \in CallerIds, raw \in SigninRaws :
        create_login_signin_response(c, raw)
  \/ \E c \in CallerIds : create_login_signin_net_error(c)
  \/ cleanup
  \/ \E ok \in BOOLEAN : cleanup_resume(ok)

(* ------------------------ the wrapper's place_order ------------------- *)

\* The private key of the settings, which every caller of place_order passes.
private_key == "key-a"

\* The instance _get_or_create_service constructs for that key.
TheService == 1

\* place_market_order's default for concurrent_tasks, which place_order
\* leaves in force; the race is followed for MaxTasks attempts at most.
default_concurrent_tasks == 300
placed_concurrent_tasks ==
  IF default_concurrent_tasks > MaxTasks THEN MaxTasks
                                         ELSE default_concurrent_tasks

\* The OrderRequest values that pass both validators of the model class:
\* confirm_real_order is True, and a limit order carries an amount.
\* created_at_ts 0 stands for None and for 0, which `not created_at_ts`
\* does not tell apart.
Requests ==
  { [order_type |-> "market", price_wei |-> p, created_at_ts |-> c,
     amount |-> NoneVal, confirm_real_order |-> TRUE] :
       p \in {NoneVal, "100"}, c \in CreatedAtChoices }
    \cup { [order_type |-> "limit", price_wei |-> NoneVal, created_at_ts |-> 0,
            amount |-> "1", confirm_real_order |-> TRUE] }

\* The error codes place_order writes into an OrderResponse.
ErrorCodes ==
  { "INVALID_PARAMETERS", "SECURITY_CHECK_FAILED", "AUTHENTICATION_REQUIRED",
    "RATE_LIMITED", "REQUEST_BLOCKED", "ORDER_CREATION_FAILED",
    "ITEM_NOT_FOR_SALE", "MISSING_AMOUNT", "MISSING_TOKEN_AMOUNT",
    "UNSUPPORTED_ORDER_TYPE", "UNKNOWN_ERROR" }

\* The exceptions that are ValueError or a subclass of it:
\* json.JSONDecodeError and pydantic's ValidationError are.
ValueErrors == {"ValueError", "JSONDecodeError", "ValidationError"}

\* The exceptions `except Exception` catches: every one the service, the
\* transport and the model classes raise.
Exceptions ==
  ValueErrors \cup { "SecurityCheckFailed", "AuthenticationRequired",
                     "RateLimited", "RequestBlocked", "RequestFailed",
                     "Blocked", "NetworkError", "KeyError", "AttributeError" }

\* The two except clauses of place_order: ValueError first, then the text
\* of any other exception is searched for the four known phrases.
error_code_network(err) ==
  IF err \in ValueErrors THEN "INVALID_PARAMETERS"
  ELSE IF err = "SecurityCheckFailed" THEN "SECURITY_CHECK_FAILED"
  ELSE IF err = "AuthenticationRequired" THEN "AUTHENTICATION_REQUIRED"
  ELSE IF err = "RateLimited" THEN "RATE_LIMITED"
  ELSE IF err = "RequestBlocked" THEN "REQUEST_BLOCKED"
  ELSE IF err = "NetworkError" THEN "NETWORK_ERROR"
  ELSE "UNKNOWN_ERROR"
error_code(err) ==
  IF err \in ValueErrors THEN "INVALID_PARAMETERS"
  ELSE IF err = "SecurityCheckFailed" THEN "SECURITY_CHECK_FAILED"
  ELSE IF err = "AuthenticationRequired" THEN "AUTHENTICATION_REQUIRED"
  ELSE IF err = "RateLimited" THEN "RATE_LIMITED"
  ELSE IF err = "RequestBlocked" THEN "REQUEST_BLOCKED"
  ELSE "UNKNOWN_ERROR"

\* OrderResponse(success=False, ..., error_code=code)
Failure(code) == [success |-> FALSE, error_code |-> code, given |-> TRUE]

\* OrderResponse(success=True, ...)
Success == [success |-> TRUE, error_code |-> NoneVal, given |-> TRUE]

\* place_order returns r.
respond(r) ==
  /\ wpc' = "responded"
  /\ order_response' = r
  /\ UNCHANGED <<pc, call, result, request>>

\* An exception reaches the except clauses of place_order: one they catch
\* becomes a response, any other leaves place_order.
fail(err) ==
  IF err \in Exceptions
    THEN respond(Failure(error_code(err)))
    ELSE /\ wpc' = "raised"
         /\ UNCHANGED <<pc, call, result, request, order_response>>

\* place_order goes on to the next call it awaits on the service, with the
\* order parameters it has so far.
proceed(stage, req) ==
  /\ wpc' = stage
  /\ request' = req
  /\ pc' = "idle"
  /\ call' = NoCall
  /\ result' = Pending
  /\ UNCHANGED order_response

\* place_order, market branch after the price is known
market_order(req) ==
  IF ~Truthy(req.price_wei)
    THEN wpc' = "responded" /\ order_response' = Failure("ITEM_NOT_FOR_SALE")
         /\ request' = req /\ UNCHANGED <<pc, call, result>>
    ELSE proceed("market_order", req)

\* place_order from the order-type test on.  OrderType has no member SELL:
\* the test of the third branch raises AttributeError.
dispatch(req) ==
  IF req.order_type = "market"
    THEN IF ~Truthy(req.price_wei) \/ req.created_at_ts = 0
           THEN proceed("item_details", req)
           ELSE market_order(req)
  ELSE IF req.order_type = "limit"
    THEN IF ~Truthy(req.amount)
           THEN respond(Failure("MISSING_AMOUNT"))
           ELSE proceed("limit_order", req)
  ELSE fail("AttributeError")

\* place_order: if not service.is_authenticated(): await service.login()
authenticate(req) ==
  IF ~is_authenticated(auth_tokens)
    THEN proceed("auth_login", req)
    ELSE dispatch(req)

\* what the steps of place_order leave alone
place_order_frame ==
  <<auth_tokens, cookies, now, pollWake, raceStart, tasks, posts, events,
    callers, cleaner, http_status, transport_vars, build, signed, built, discovery, strategy, refresh>>

\* self._service_cache[cache_key] = service
cache_insert ==
  /\ service_cache' = cache_put(cache_key(private_key), TheService)
  /\ services' = (TheService :>
                    [key |-> cache_key(private_key), tokens |-> auth_tokens])

\* OrderServiceWrapper.create_service, awaited by the application's
\* lifespan before it serves: _get_or_create_service up to the login.
create_service ==
  /\ wpc = "none"
  /\ pc = "idle"
  /\ service_cache = <<>>
  /\ proceed("startup_login", request)
  /\ UNCHANGED <<service_cache, services>>
  /\ UNCHANGED place_order_frame

\* create_service resumed by login: an exception leaves it, and the
\* application does not start; else the instance is cached.
create_service_resume ==
  /\ wpc = "startup_login"
  /\ pc = "idle"
  /\ result.kind # "pending"
  /\ IF result.kind = "error"
       THEN /\ wpc' = "failed"
            /\ UNCHANGED <<pc, call, result, request, order_response,
                           service_cache, services>>
       ELSE /\ proceed("none", request)
            /\ cache_insert
  /\ UNCHANGED place_order_frame

\* OrderServiceWrapper.place_order up to its first suspension
place_order(req) ==
  /\ wpc = "none"
  /\ pc = "idle"
  /\ IF cache_key(private_key) \in CacheKeys
       THEN authenticate(req)
       ELSE proceed("create_login", req)
  /\ UNCHANGED <<service_cache, services>>
  /\ UNCHANGED place_order_frame

\* place_order resumed by the login of _get_or_create_service
get_or_create_resume ==
  /\ wpc = "create_login"
  /\ pc = "idle"
  /\ result.kind # "pending"
  /\ IF result.kind = "error"
       THEN fail(result.err) /\ UNCHANGED <<service_cache, services>>
       ELSE authenticate(request) /\ cache_insert
  /\ UNCHANGED place_order_frame

\* place_order resumed by its own login
login_resume ==
  /\ wpc = "auth_login"
  /\ pc = "idle"
  /\ result.kind # "pending"
  /\ IF result.kind = "error" THEN fail(result.err) ELSE dispatch(request)
  /\ UNCHANGED <<service_cache, services>>
  /\ UNCHANGED place_order_frame

\* place_order resumed by get_item_details: the price and the listing time
\* of the item replace those of the request.
item_details_resume ==
  /\ wpc = "item_details"
  /\ pc = "idle"
  /\ result.kind # "pending"
  /\ IF result.kind = "error"
       THEN fail(result.err)
       ELSE market_order([request EXCEPT
                            !.price_wei = result.price_wei,
                            !.created_at_ts = result.created_at_ts])
  /\ UNCHANGED <<service_cache, services>>
  /\ UNCHANGED place_order_frame

\* place_order from `if response.get('success', False)`: a text body makes
\* response.get('data', {}).get(...) raise AttributeError on success, and
\* fails the validation of order_data: Optional[dict] otherwise.
order_outcome(response) ==
  IF response.success
    THEN IF response.data.shape = "dict" THEN Returned(response)
                                         ELSE Raised("AttributeError")
    ELSE IF response.data.shape = "dict" THEN Raised("OrderCreationFailed")
                                         ELSE Raised("ValidationError")

\* place_order resumed by the placement operation
order_resume ==
  /\ wpc \in {"market_order", "limit_order"}
  /\ pc \in {"returned", "raised"}
  /\ IF result.kind = "error"
       THEN fail(result.err)
       ELSE LET out == order_outcome(result.resp)
            IN IF out.kind = "response" THEN respond(Success)
               ELSE IF out.err = "OrderCreationFailed"
                 THEN respond(Failure("ORDER_CREATION_FAILED"))
               ELSE fail(out.err)
  /\ UNCHANGED <<service_cache, services>>
  /\ UNCHANGED place_order_frame

\* The calls place_order and _get_or_create_service make on the service.
LoginStages == {"startup_login", "create_login", "auth_login"}

service_login ==
  /\ wpc \in LoginStages
  /\ call.op = "none"
  /\ login

service_get_item_details ==
  /\ wpc = "item_details"
  /\ call.op = "none"
  /\ get_item_details

service_place_market_order(build_ok) ==
  /\ wpc = "market_order"
  /\ call.op = "none"
  /\ place_market_order(request.confirm_real_order, placed_concurrent_tasks,
                        request.created_at_ts, build_ok)

service_place_limit_order(build_ok) ==
  /\ wpc = "limit_order"
  /\ call.op = "none"
  /\ place_limit_order(request.confirm_real_order, build_ok)

(* --------------------------- order endpoints -------------------------- *)

\* settings.require_confirmation as deployed, and the query parameters of
\* GET /api/v1/order that bear on the outcome.
OrderArgs ==
  [ order_type : {"market"}, amount : {NoneVal},
    price_wei : {NoneVal, "100"}, created_at_ts : CreatedAtChoices,
    confirm_real_order : BOOLEAN, require_confirmation : BOOLEAN ]
  \cup
  [ order_type : {"limit"}, amount : {NoneVal, "1"},
    price_wei : {NoneVal}, created_at_ts : {0},
    confirm_real_order : BOOLEAN, require_confirmation : BOOLEAN ]

\* create_order, lines 73-83: the fields handed to OrderRequest
RequestFields(args) ==
  [ order_type |-> args.order_type,
    price_wei |-> args.price_wei,
    created_at_ts |-> args.created_at_ts,
    amount |-> args.amount,
    confirm_real_order |->
      (args.confirm_real_order \/ ~args.require_confirmation) ]

\* The two validators of OrderRequest, each raising ValueError.
validate_amount_for_limit_order(req) ==
  ~(req.order_type = "limit" /\ ~Truthy(req.amount))
validate_confirmation(req) == req.confirm_real_order

\* The status the endpoints choose for an unsuccessful OrderResponse.
status_code(code) ==
  IF code \in {"INVALID_PARAMETERS", "SECURITY_CHECK_FAILED"} THEN 400
  ELSE IF code = "AUTHENTICATION_REQUIRED" THEN 401
  ELSE IF code = "RATE_LIMITED" THEN 429
  ELSE IF code = "REQUEST_BLOCKED" THEN 403
  ELSE 500

\* except Exception of the endpoints: ErrorResponse with
\* INTERNAL_SERVER_ERROR under status 500.
internal_server_error(req) ==
  /\ wpc' = "answered"
  /\ request' = req
  /\ order_response' = Failure("INTERNAL_SERVER_ERROR")
  /\ http_status' = 500
  /\ UNCHANGED <<service_vars, service_cache, services, callers, cleaner,
                 transport_vars, build, signed, built, discovery, strategy, refresh>>

\* GET /api/v1/order up to its first suspension: OrderRequest(...) is
\* constructed inside the try block, so a validator's error is caught by
\* the endpoint's except clause; a valid request goes to place_order.
create_order(args) ==
  /\ wpc = "none"
  /\ pc = "idle"
  /\ LET req == RequestFields(args)
     IN IF validate_amount_for_limit_order(req) /\ validate_confirmation(req)
          THEN place_order(req)
          ELSE internal_server_error(req)

\* GET /api/v1/sell: OrderRequest(order_type=OrderType.SELL, ...); OrderType
\* has no member SELL, the AttributeError is caught by the except clause.
create_sell_order(confirm, require_confirmation) ==
  /\ wpc = "none"
  /\ pc = "idle"
  /\ internal_server_error([NoRequest EXCEPT
       !.order_type = "sell", !.price_wei = "100",
       !.confirm_real_order = (confirm \/ ~require_confirmation)])

\* create_order resumed by place_order: the result as it is when
\* successful, else a JSONResponse under the status of its error code.
create_order_resume ==
  /\ wpc = "responded"
  /\ wpc' = "answered"
  /\ http_status' = IF order_response.success
                      THEN 200 ELSE status_code(order_response.error_code)
  /\ UNCHANGED <<service_vars, service_cache, services, callers, cleaner,
                 request, order_response, transport_vars, build, signed, built, discovery, strategy, refresh>>

(* ----------------------------- proxy pool ----------------------------- *)

\* A line of the proxy source is a sequence of pieces: " " is whitespace,
\* "#" the comment sign, "x://" a scheme, anything else a host:port.
blank_line   == <<" ">>
comment_line == <<" ", "#", "10.0.0.9:80">>
bare_line    == <<"10.0.0.1:8080", " ">>
http_line    == <<" ", "http://", "10.0.0.2:8080">>
https_line   == <<"https://", "10.0.0.3:8080">>
socks_line   == <<"socks5://", "10.0.0.4:1080">>

\* Contents the proxy source is given.
Sources ==
  { <<>>,
    <<blank_line, comment_line>>,
    <<bare_line>>,
    <<comment_line, http_line, blank_line, bare_line>>,
    <<https_line, socks_line>> }

\* str.strip(): whitespace removed at both ends
RECURSIVE lstrip(_)
lstrip(line) ==
  IF line # <<>> /\ Head(line) = " " THEN lstrip(Tail(line)) ELSE line
RECURSIVE rstrip(_)
rstrip(line) ==
  IF line # <<>> /\ line[Len(line)] = " "
    THEN rstrip(SubSeq(line, 1, Len(line) - 1)) ELSE line
strip(line) == rstrip(lstrip(line))

\* str.startswith(prefix)
startswith(line, prefix) == line # <<>> /\ Head(line) = prefix

\* _load_proxies, lines 45-51: the loop over the lines of the file
RECURSIVE parse_unstripped(_)
parse_unstripped(lines) ==
  IF lines = <<>> THEN <<>>
  ELSE LET line == Head(lines)
       IN IF line # <<>> /\ ~startswith(line, "#")
            THEN <<IF ~startswith(line, "http://") /\ ~startswith(line, "https://")
                     THEN <<"http://">> \o line ELSE line>>
                 \o parse_unstripped(Tail(lines))
            ELSE parse_unstripped(Tail(lines))
RECURSIVE parse(_)
parse(lines) ==
  IF lines = <<>> THEN <<>>
  ELSE LET line == strip(Head(lines))
       IN IF line # <<>> /\ ~startswith(line, "#")
            THEN <<IF ~startswith(line, "http://") /\ ~startswith(line, "https://")
                     THEN <<"http://">> \o line ELSE line>>
                 \o parse(Tail(lines))
            ELSE parse(Tail(lines))

\* ProxyManager._load_proxies: the list it returns, the fields it leaves,
\* and whether it parsed the source.
load_proxies ==
  IF ~proxy_file.exists
    THEN [ret |-> <<>>, proxies |-> _proxies, last_modified |-> _last_modified,
          parsed |-> FALSE]
  ELSE IF proxy_file.mtime # _last_modified
    THEN [ret |-> parse(proxy_file.lines), proxies |-> parse(proxy_file.lines),
          last_modified |-> proxy_file.mtime, parsed |-> TRUE]
    ELSE [ret |-> _proxies, proxies |-> _proxies,
          last_modified |-> _last_modified, parsed |-> FALSE]

\* What is outside the transport on its own.
transport_frame ==
  <<service_vars, service_cache, services, callers, cleaner, wpc, request,
    order_response, http_status, build, signed, built, discovery, strategy, refresh>>

\* A read of the pool: _load_proxies has run; the read is noted with what
\* it returned, whether it parsed, whether it follows another read with no
\* modification of the source between the two, and the modification time
\* recorded at the last parse before it, -1 when there was none.
read_pool(op, loaded, proxy) ==
  /\ _proxies' = loaded.proxies
  /\ _last_modified' = loaded.last_modified
  /\ reading' = [op |-> op, proxy |-> proxy, count |-> Len(loaded.ret),
                 available |-> Len(loaded.ret) > 0, pool |-> loaded.ret,
                 parsed |-> loaded.parsed, prev_parsed |-> reading.parsed,
                 consecutive |-> reading.op # "none" /\ ~reading.dirty,
                 dirty |-> FALSE,
                 ever_parsed |-> reading.ever_parsed \/ loaded.parsed,
                 recorded |-> IF reading.ever_parsed THEN _last_modified
                                                     ELSE -1]

\* random.choice(proxies); <<>> stands for None
Choices(pool) ==
  IF pool = <<>> THEN {<<>>} ELSE {pool[n] : n \in 1..Len(pool)}

\* The source is written: new content under a later modification time; the
\* first version may carry any time from 0 on.
write_source(lines, mtime) ==
  /\ mtime > proxy_file.mtime
  /\ proxy_file' = [exists |-> TRUE, mtime |-> mtime, lines |-> lines]
  /\ reading' = [reading EXCEPT !.dirty = TRUE]
  /\ UNCHANGED <<_proxies, _last_modified, use_proxy, transfer>>
  /\ UNCHANGED transport_frame

\* The source is removed.
remove_source ==
  /\ proxy_file.exists
  /\ proxy_file' = [proxy_file EXCEPT !.exists = FALSE]
  /\ reading' = [reading EXCEPT !.dirty = TRUE]
  /\ UNCHANGED <<_proxies, _last_modified, use_proxy, transfer>>
  /\ UNCHANGED transport_frame

\* ProxyManager.get_random_proxy
get_random_proxy ==
  /\ \E proxy \in Choices(load_proxies.ret) :
       read_pool("get_random_proxy", load_proxies, proxy)
  /\ UNCHANGED <<proxy_file, use_proxy, transfer>>
  /\ UNCHANGED transport_frame

\* ProxyManager.get_proxy_count
get_proxy_count ==
  /\ read_pool("get_proxy_count", load_proxies, <<>>)
  /\ UNCHANGED <<proxy_file, use_proxy, transfer>>
  /\ UNCHANGED transport_frame

\* ProxyManager.is_available: self.get_proxy_count() > 0
is_available ==
  /\ read_pool("is_available", load_proxies, <<>>)
  /\ UNCHANGED <<proxy_file, use_proxy, transfer>>
  /\ UNCHANGED transport_frame

(* ------------------------- the transport's calls ---------------------- *)

\* Answers to a get/post of the transport, with statuses at the edges of
\* the 2xx range.
TransportRaws ==
  { [status_code |-> 200, is_json |-> TRUE,  message |-> NoneVal],
    [status_code |-> 299, is_json |-> TRUE,  message |-> NoneVal],
    [status_code |-> 300, is_json |-> TRUE,  message |-> NoneVal],
    [status_code |-> 199, is_json |-> FALSE, message |-> NoneVal] }

\* CurlCffiStrategy.set_proxy_enabled
set_proxy_enabled(enabled) ==
  /\ use_proxy' = enabled
  /\ UNCHANGED <<proxy_file, _proxies, _last_modified, reading, transfer>>
  /\ UNCHANGED transport_frame

\* CurlCffiStrategy.get/post up to `await self.session.get/post(...)`:
\* _get_proxy_config reads the pool only when proxying is enabled, and
\* `if proxy:` attaches what it returned; one request goes out.
transport_request_always ==
  /\ transfer.pc # "inflight"
  /\ \E proxy \in Choices(load_proxies.ret) :
       /\ read_pool("get_random_proxy", load_proxies, proxy)
       /\ transfer' = [pc |-> "inflight", enabled |-> use_proxy,
                       pool |-> load_proxies.ret, proxy |-> proxy,
                       requests |-> 1, result |-> Pending]
  /\ UNCHANGED <<proxy_file, use_proxy>>
  /\ UNCHANGED transport_frame
transport_request ==
  /\ transfer.pc # "inflight"
  /\ IF ~use_proxy
       THEN /\ transfer' = [pc |-> "inflight", enabled |-> FALSE,
                            pool |-> <<>>, proxy |-> <<>>, requests |-> 1,
                            result |-> Pending]
            /\ UNCHANGED <<_proxies, _last_modified, reading>>
       ELSE \E proxy \in Choices(load_proxies.ret) :
              /\ read_pool("get_random_proxy", load_proxies, proxy)
              /\ transfer' = [pc |-> "inflight", enabled |-> TRUE,
                              pool |-> load_proxies.ret, proxy |-> proxy,
                              requests |-> 1, result |-> Pending]
  /\ UNCHANGED <<proxy_file, use_proxy>>
  /\ UNCHANGED transport_frame

\* The request completes: return self._format_response(response)
transport_response(raw) ==
  /\ transfer.pc = "inflight"
  /\ transfer' = [transfer EXCEPT !.pc = "returned",
                                  !.result = Returned(format_response(raw))]
  /\ UNCHANGED <<proxy_file, _proxies, _last_modified, reading, use_proxy>>
  /\ UNCHANGED transport_frame

\* The request fails at network level: except Exception as error: raise error
transport_net_error_retry ==
  /\ transfer.pc = "inflight"
  /\ transfer' = [transfer EXCEPT !.requests = 2]
  /\ UNCHANGED <<proxy_file, _proxies, _last_modified, reading, use_proxy>>
  /\ UNCHANGED transport_frame
transport_net_error ==
  /\ transfer.pc = "inflight"
  /\ transfer' = [transfer EXCEPT !.pc = "raised",
                                  !.result = Raised("NetworkError")]
  /\ UNCHANGED <<proxy_file, _proxies, _last_modified, reading, use_proxy>>
  /\ UNCHANGED transport_frame

\* Modification times given to the source.
Mtimes == 0..MaxMtime

TransportNext ==
  \/ \E lines \in Sources, mtime \in Mtimes : write_source(lines, mtime)
  \/ remove_source
  \/ get_random_proxy
  \/ get_proxy_count
  \/ is_available
  \/ \E enabled \in BOOLEAN : set_proxy_enabled(enabled)
  \/ transport_request
  \/ \E raw \in TransportRaws : transport_response(raw)
  \/ transport_net_error

(* --------------------------- numbers of Python ------------------------ *)

\* A natural number of any size is the sequence of its binary digits, the
\* lowest first and the highest a 1; zero is <<>>.  Python's int has no
\* width, and the amounts in wei exceed 2^31.  Arithmetic runs on limbs of
\* LimbBits binary digits.
LimbBits == 14
Limb == 16384

\* 2^k for k below LimbBits
Pow2(k) ==
  <<1, 2, 4, 8, 16, 32, 64, 128, 256, 512, 1024, 2048, 4096, 8192>>[k + 1]

RECURSIVE Pow10(_)
Pow10(k) == IF k = 0 THEN 1 ELSE 10 * Pow10(k - 1)

RECURSIVE BitsOf(_)
BitsOf(n) == IF n = 0 THEN <<>> ELSE <<n % 2>> \o BitsOf(n \div 2)

Trim(x) ==
  LET ones == {i \in 1..Len(x) : x[i] = 1}
  IN IF ones = {} THEN <<>>
     ELSE SubSeq(x, 1, CHOOSE i \in ones : \A j \in ones : j <= i)

Zeros(k) == [i \in 1..k |-> 0]

BitAt(x, i) == IF i <= Len(x) THEN x[i] ELSE 0

\* The value of the binary digits t .. u - 1 of limb j of x
RECURSIVE LimbAt(_, _, _, _)
LimbAt(x, j, t, u) ==
  IF u = t + 1 THEN BitAt(x, LimbBits * (j - 1) + t + 1) * Pow2(t)
  ELSE LimbAt(x, j, t, (t + u) \div 2) + LimbAt(x, j, (t + u) \div 2, u)

ToLimbs(x) ==
  [j \in 1..((Len(x) + LimbBits - 1) \div LimbBits) |->
     LimbAt(x, j, 0, LimbBits)]

FromLimbs(y) ==
  Trim([i \in 1..(LimbBits * Len(y)) |->
          (y[(i - 1) \div LimbBits + 1] \div Pow2((i - 1) % LimbBits)) % 2])

RECURSIVE MulLimbs(_, _, _)
MulLimbs(y, c, carry) ==
  IF y = <<>> THEN (IF carry = 0 THEN <<>> ELSE <<carry>>)
  ELSE LET t == Head(y) * c + carry
       IN <<t % Limb>> \o MulLimbs(Tail(y), c, t \div Limb)

\* x * c + carry, for c and carry below 2^14
MulSmall(x, c, carry) ==
  IF x = <<>> THEN BitsOf(carry)
  ELSE FromLimbs(MulLimbs(ToLimbs(x), c, carry))

RECURSIVE DivLimbs(_, _)
DivLimbs(y, d) ==
  IF y = <<>> THEN [q |-> <<>>, r |-> 0]
  ELSE LET hi == DivLimbs(Tail(y), d)
           t  == hi.r * Limb + Head(y)
       IN [q |-> <<t \div d>> \o hi.q, r |-> t % d]

\* x divided by d, for d up to 10^4: quotient and remainder
DivRem(x, d) ==
  IF x = <<>> THEN [q |-> <<>>, r |-> 0]
  ELSE LET dl == DivLimbs(ToLimbs(x), d)
       IN [q |-> FromLimbs(dl.q), r |-> dl.r]

\* x divided by 10^k: quotient, and whether anything remains
RECURSIVE DivPow10(_, _)
DivPow10(x, k) ==
  IF k <= 4
    THEN LET dr == DivRem(x, Pow10(k)) IN [q |-> dr.q, rest |-> dr.r # 0]
    ELSE LET dr  == DivRem(x, 10000)
             top == DivPow10(dr.q, k - 4)
         IN [q |-> top.q, rest |-> top.rest \/ dr.r # 0]

\* x + 1
Inc(x) ==
  LET zeros == {i \in 1..Len(x) : x[i] = 0}
  IN IF zeros = {} THEN Zeros(Len(x)) \o <<1>>
     ELSE LET j == CHOOSE i \in zeros : \A k \in zeros : i <= k
          IN [i \in 1..Len(x) |->
                IF i < j THEN 0 ELSE IF i = j THEN 1 ELSE x[i]]

\* x < y
Less(x, y) ==
  \/ Len(x) < Len(y)
  \/ /\ Len(x) = Len(y)
     /\ \E i \in 1..Len(x) :
          /\ x[i] < y[i]
          /\ \A j \in (i + 1)..Len(x) : x[j] = y[j]

\* x * 2^k
ShiftLeft(x, k) == IF x = <<>> THEN <<>> ELSE Zeros(k) \o x

\* int("...") of a run of decimal digits, the highest first, taken four
\* digits at a time
RECURSIVE SmallDecimal(_)
SmallDecimal(digits) ==
  IF digits = <<>> THEN 0
  ELSE 10 * SmallDecimal(SubSeq(digits, 1, Len(digits) - 1))
         + digits[Len(digits)]
RECURSIVE FromDecimal(_)
FromDecimal(digits) ==
  IF Len(digits) <= 4 THEN BitsOf(SmallDecimal(digits))
  ELSE MulSmall(FromDecimal(SubSeq(digits, 1, Len(digits) - 4)), 10000,
                SmallDecimal(SubSeq(digits, Len(digits) - 3, Len(digits))))

\* str(n) of a natural number: its decimal digits, the highest first
RECURSIVE Decimal(_)
Decimal(x) ==
  IF x = <<>> THEN <<>>
  ELSE LET dr == DivRem(x, 10000)
       IN Decimal(dr.q) \o <<dr.r \div 1000, (dr.r \div 100) % 10,
                              (dr.r \div 10) % 10, dr.r % 10>>
str_int(x) ==
  LET ds == Decimal(x)
      nz == {i \in 1..Len(ds) : ds[i] # 0}
  IN IF nz = {} THEN <<0>>
     ELSE SubSeq(ds, CHOOSE i \in nz : \A j \in nz : i <= j, Len(ds))

\* A float of Python is an IEEE 754 double: mantissa m of at most 53 binary
\* digits and exponent e, of value m * 2^e; every amount here is far from
\* the ends of the exponent range.
MantissaBits == 53

\* Rounding to 53 binary digits, ties to even; sticky says that digits
\* below those of x were cut off already.  The result is m * 2^shift.
RoundBits(x, sticky) ==
  IF Len(x) <= MantissaBits THEN [m |-> x, shift |-> 0]
  ELSE LET drop  == Len(x) - MantissaBits
           high  == SubSeq(x, drop + 1, Len(x))
           guard == x[drop] = 1
           rest  == sticky \/ \E i \in 1..(drop - 1) : x[i] = 1
           up    == guard /\ (rest \/ high[1] = 1)
           m     == IF up THEN Inc(high) ELSE high
       IN IF Len(m) > MantissaBits
            THEN [m |-> Tail(m), shift |-> drop + 1]
            ELSE [m |-> m, shift |-> drop]

\* float(text) for the decimal numeral digits / 10^d: the nearest double.
\* The numeral is scaled by 2^k so that the quotient has more than 53
\* binary digits (10^d < 2^(4d)), divided, and rounded once.
float_of(digits, d) ==
  LET n == FromDecimal(digits)
      k == IF MantissaBits + 2 + 4 * d > Len(n)
             THEN MantissaBits + 2 + 4 * d - Len(n) ELSE 0
      dr == DivPow10(ShiftLeft(n, k), d)
      r == RoundBits(dr.q, dr.rest)
  IN IF n = <<>> THEN [m |-> <<>>, e |-> 0]
                 ELSE [m |-> r.m, e |-> r.shift - k]

\* f * 1_000_000_000_000_000_000: the int becomes the double 10^18, which
\* is exact (5^18 < 2^53), and the product is rounded to a double.
float_times_1e18(f) ==
  LET x == MulSmall(MulSmall(MulSmall(f.m, 15625, 0), 15625, 0), 15625, 0)
      r == RoundBits(x, FALSE)
  IN IF f.m = <<>> THEN f ELSE [m |-> r.m, e |-> f.e + 18 + r.shift]

\* int(f) of a double f >= 0: the digits after the point are cut off
int_of_float(f) ==
  IF f.m = <<>> THEN <<>>
  ELSE IF f.e >= 0 THEN ShiftLeft(f.m, f.e)
  ELSE IF -f.e >= Len(f.m) THEN <<>>
  ELSE SubSeq(f.m, 1 - f.e, Len(f.m))

\* f > c for a double f >= 0 and a natural number c
float_greater(f, c) ==
  IF f.e >= 0 THEN Less(c, ShiftLeft(f.m, f.e))
              ELSE Less(ShiftLeft(c, -f.e), f.m)

(* --------------------------- building an order ------------------------ *)

\* _process_token_amount: MAX_REASONABLE_AMOUNT
MAX_REASONABLE_AMOUNT == 1000000000

\* get_timestamp: ONE_DAY_SEC
ONE_DAY_SEC == 86400

\* A human quantity as the caller writes it: sign, decimal digits and the
\* number of them after the point; valid is false for text that is no
\* numeral.  An absent parameter is Absent.
Quantity(text, neg, digits, d) ==
  [text |-> text, valid |-> TRUE, neg |-> neg, digits |-> digits, d |-> d]
Absent == [text |-> "<absent>", valid |-> FALSE, neg |-> FALSE,
           digits |-> <<>>, d |-> 0]

Amounts ==
  { Quantity("2.5", FALSE, <<2, 5>>, 1),
    Quantity("1.1", FALSE, <<1, 1>>, 1),
    Quantity("3", FALSE, <<3>>, 0),
    Quantity("0", FALSE, <<0>>, 0),
    Quantity("-0.5", TRUE, <<0, 5>>, 1),
    Quantity("0.125", FALSE, <<0, 1, 2, 5>>, 3),
    Quantity("1000000000", FALSE, <<1, 0, 0, 0, 0, 0, 0, 0, 0, 0>>, 0),
    Quantity("1000000001", FALSE, <<1, 0, 0, 0, 0, 0, 0, 0, 0, 1>>, 0),
    Quantity("1000000000.00000001", FALSE,
             <<1, 0, 0, 0, 0, 0, 0, 0, 0, 0, 0, 0, 0, 0, 0, 0, 0, 1>>, 8),
    [text |-> "abc", valid |-> FALSE, neg |-> FALSE, digits |-> <<>>, d |-> 0] }

\* Pre-scaled quantities, in wei, as text.
TokenAmounts ==
  { Quantity("100", FALSE, <<1, 0, 0>>, 0),
    Quantity("2500000000000000000", FALSE,
             <<2, 5, 0, 0, 0, 0, 0, 0, 0, 0, 0, 0, 0, 0, 0, 0, 0, 0, 0>>, 0) }

\* The params dict of a build, as far as the quantity goes: either form
\* alone, neither, and both together for two of the human quantities.
BuildParams ==
  { p \in [ amount : Amounts \cup {Absent},
            token_amount : TokenAmounts \cup {Absent} ] :
      \/ p.amount = Absent
      \/ p.token_amount = Absent
      \/ p.amount.text \in {"1.1", "-0.5"} }

\* OrderService._process_token_amount
process_token_amount(amount) ==
  IF ~amount.valid THEN [err |-> "ValueError", value |-> <<>>]
  ELSE LET f == float_of(amount.digits, amount.d)
       IN IF amount.neg /\ f.m # <<>>
            THEN [err |-> "ValueError", value |-> <<>>]
          ELSE IF float_greater(f, BitsOf(MAX_REASONABLE_AMOUNT))
            THEN [err |-> "ValueError", value |-> <<>>]
          ELSE [err |-> "none",
                value |-> str_int(int_of_float(float_times_1e18(f)))]

\* The clock is read twice by get_timestamp; the second reading is lag
\* milliseconds after the first.
Lags == {0, 1}

\* OrderService.get_timestamp for a number n: int(time.time() * 1000),
\* int(time.time()) and sec + int(n * ONE_DAY_SEC)
get_timestamp_short_day(n, lag) ==
  [ms |-> now, sec |-> (now + lag) \div 1000,
   after_days_sec |-> (now + lag) \div 1000 + n * 86000]
get_timestamp(n, lag) ==
  [ms |-> now, sec |-> (now + lag) \div 1000,
   after_days_sec |-> (now + lag) \div 1000 + n * ONE_DAY_SEC]

\* str(n) of an int that is not negative here
str_nat(n) == str_int(BitsOf(n))

\* OrderService.create_order: the quantity, the two times and the salt as
\* the strings the order carries.
order_of(params, is_seller, expire_days, lag) ==
  LET quantity ==
        IF params.token_amount # Absent
          THEN [err |-> "none", value |-> params.token_amount.digits]
        ELSE IF params.amount # Absent
          THEN process_token_amount(params.amount)
        ELSE [err |-> "ValueError", value |-> <<>>]
      timestamp_info == get_timestamp(expire_days, lag)
  IN IF quantity.err # "none"
       THEN [kind |-> "error", err |-> quantity.err]
       ELSE [kind |-> "order", err |-> "none",
             isSeller |-> is_seller,
             listingTime |-> str_nat(timestamp_info.sec),
             expirationTime |-> str_nat(timestamp_info.after_days_sec),
             tokenAmount |-> quantity.value,
             salt |-> str_nat(timestamp_info.ms)]

\* What is outside the order builder on its own.
build_frame ==
  <<service_vars, service_cache, services, callers, cleaner, wpc, request,
    order_response, http_status, transport_vars, signed, built, discovery, strategy, refresh>>

\* create_order called by op: no request goes out and no field of the
\* service is written.
create_order_by(op, params, is_seller, expire_days, lag) ==
  /\ build' = [op |-> op, params |-> params, expire_days |-> expire_days,
               out |-> order_of(params, is_seller, expire_days, lag)]
  /\ UNCHANGED build_frame

\* OrderService.create_market_order
build_market_order(params, lag) ==
  create_order_by("market", params, FALSE, 3, lag)

\* OrderService.create_limit_order
build_limit_order(params, lag) ==
  create_order_by("limit", params, FALSE, 3, lag)

\* OrderService.create_sell_order
build_sell_order(params, lag) ==
  create_order_by("sell", params, TRUE, 14, lag)

\* The arguments get_timestamp is called with: numbers of days, and a
\* value that is no number (isinstance(n, (int, float)) is false).
Days == {-2, -1, 0, 1, 3, 7, 14}
DayArgs == {[numeric |-> TRUE, value |-> n] : n \in Days}
             \cup {[numeric |-> FALSE, value |-> 0]}

\* OrderService.get_timestamp called directly
take_timestamp(n, lag) ==
  /\ build' = [op |-> "get_timestamp",
               params |-> [amount |-> Absent, token_amount |-> Absent],
               numeric |-> n.numeric,
               expire_days |-> n.value,
               out |-> IF ~n.numeric
                         THEN [kind |-> "error", err |-> "TypeError"]
                         ELSE [kind |-> "timestamp", err |-> "none",
                               info |-> get_timestamp(n.value, lag)]]
  /\ UNCHANGED build_frame

BuildNext ==
  \/ \E params \in BuildParams, lag \in Lags : build_market_order(params, lag)
  \/ \E params \in BuildParams, lag \in Lags : build_limit_order(params, lag)
  \/ \E params \in BuildParams, lag \in Lags : build_sell_order(params, lag)
  \/ \E n \in DayArgs, lag \in Lags : take_timestamp(n, lag)

(* ------------------------------ signing ------------------------------- *)

\* OrderService.DOMAIN and OrderService.TYPES['Order'], class attributes.
SigningDomain ==
  [name |-> "Marketplace", version |-> "1.0", chainId |-> 68414,
   verifyingContract |-> "0xf1c82c082af3de3614771105f01dc419c3163352"]
OrderTypes ==
  << [name |-> "isSeller", type |-> "uint256"],
     [name |-> "maker", type |-> "address"],
     [name |-> "listingTime", type |-> "uint256"],
     [name |-> "expirationTime", type |-> "uint256"],
     [name |-> "tokenAddress", type |-> "address"],
     [name |-> "tokenAmount", type |-> "uint256"],
     [name |-> "nftAddress", type |-> "address"],
     [name |-> "nftTokenId", type |-> "uint256"],
     [name |-> "salt", type |-> "uint256"] >>

\* str.lower, letter by letter; a text is the sequence of its characters.
lower_char(c) ==
  IF c = "A" THEN "a" ELSE IF c = "B" THEN "b" ELSE IF c = "E" THEN "e" ELSE c
lower(text) == [i \in 1..Len(text) |-> lower_char(text[i])]

\* An order as create_order returns it; times, amount and salt are decimal
\* digits, addresses and the token id are texts.
BaseOrder ==
  [isSeller |-> FALSE,
   maker |-> <<"0", "x", "A", "b", "1">>,
   listingTime |-> <<3, 0>>,
   expirationTime |-> <<2, 5, 9, 2, 3, 0>>,
   tokenAddress |-> <<"0", "x", "0", "7", "E">>,
   tokenAmount |-> <<1, 0, 0>>,
   nftAddress |-> <<"0", "x", "4", "3", "D">>,
   nftTokenId |-> <<"7", "7">>,
   salt |-> <<3, 0, 9, 9, 9>>]

\* The orders handed to sign_order: one order and, for each of its nine
\* fields, the order that differs from it in that field alone.
SignOrders ==
  { BaseOrder,
    [BaseOrder EXCEPT !.isSeller = TRUE],
    [BaseOrder EXCEPT !.maker = <<"0", "x", "A", "b", "2">>],
    [BaseOrder EXCEPT !.listingTime = <<3, 1>>],
    [BaseOrder EXCEPT !.expirationTime = <<1, 2, 0, 9, 6, 3, 0>>],
    [BaseOrder EXCEPT !.tokenAddress = <<"0", "x", "0", "8", "E">>],
    [BaseOrder EXCEPT !.tokenAmount = <<2, 0, 0>>],
    [BaseOrder EXCEPT !.nftAddress = <<"0", "x", "4", "4", "D">>],
    [BaseOrder EXCEPT !.nftTokenId = <<"7", "8">>],
    [BaseOrder EXCEPT !.salt = <<3, 1, 0, 0, 0>>] }

\* sign_order: order_for_signing
order_for_signing(order) ==
  [isSeller |-> 0,
   maker |-> lower(order.maker),
   listingTime |-> SmallDecimal(order.listingTime),
   expirationTime |-> SmallDecimal(order.expirationTime),
   tokenAddress |-> lower(order.tokenAddress),
   tokenAmount |-> order.tokenAmount,
   nftAddress |-> lower(order.nftAddress),
   nftTokenId |-> lower(order.nftTokenId),
   salt |-> SmallDecimal(order.salt)]

\* sign_order: full_message
full_message(order) ==
  [types |-> OrderTypes, primaryType |-> "Order", domain |-> SigningDomain,
   message |-> order_for_signing(order)]

\* Account.sign_message(encode_typed_data(...)): ECDSA with the nonce of
\* RFC 6979, a function of the key and of the encoded message.  The
\* signature is named by the two.
sign_message(key, message) == [signer |-> key, over |-> message]

\* sign_order as the code computes it, and as it would be with a nonce
\* drawn from the clock.
sign_order_of_clock(order) ==
  [sign_message(private_key, full_message(order)) EXCEPT !.signer = now]
sign_order_of(order) == sign_message(private_key, full_message(order))

\* Everything but the record of the signatures.
sign_frame ==
  <<service_vars, service_cache, services, callers, cleaner, wpc, request,
    order_response, http_status, transport_vars, build, built, discovery, strategy, refresh>>

\* OrderService.sign_order(order), called at any time
sign_order(order) ==
  /\ Len(signed) < MaxSigned
  /\ signed' = Append(signed,
                      [order |-> order, at |-> now,
                       authenticated |-> is_authenticated(auth_tokens),
                       message |-> order_for_signing(order),
                       signature |-> sign_order_of(order)])
  /\ UNCHANGED sign_frame

\* Time passes between two calls.
pass_time ==
  /\ \E t \in StartTimes : t > now /\ now' = t
  /\ UNCHANGED <<auth_tokens, cookies, pc, call, pollWake, raceStart, tasks,
                 posts, events, result>>
  /\ UNCHANGED wrapper_vars

SignNext ==
  \/ \E order \in SignOrders : sign_order(order)
  \/ set_auth_cookies("tok", "tok")
  \/ clear_auth_cookies
  \/ pass_time

(* ------------------------- orders in a series ------------------------- *)

\* Everything but the record of the orders built.
series_frame ==
  <<service_vars, service_cache, services, callers, cleaner, wpc, request,
    order_response, http_status, transport_vars, build, signed, discovery, strategy, refresh>>

\* The params of the builds followed: a pre-scaled quantity.
SeriesParams ==
  {[amount |-> Absent, token_amount |-> t] : t \in TokenAmounts}

\* One more order built by the service: by an attempt of a race
\* (_single_purchase_task calls create_market_order as it starts, one attempt
\* after the other), or by create_limit_order or create_sell_order.  The
\* clock is read at the call.
build_next_order(op, params, is_seller, expire_days, lag) ==
  /\ Len(built) < MaxBuilt
  /\ built' = Append(built,
                     [op |-> op, at |-> now,
                      order |-> order_of(params, is_seller, expire_days, lag)])
  /\ UNCHANGED series_frame

attempt_builds(params, lag) ==
  build_next_order("market", params, FALSE, 3, lag)
limit_builds(params, lag) ==
  build_next_order("limit", params, FALSE, 3, lag)
sell_builds(params, lag) ==
  build_next_order("sell", params, TRUE, 14, lag)

SeriesNext ==
  \/ \E params \in SeriesParams, lag \in Lags : attempt_builds(params, lag)
  \/ \E params \in SeriesParams, lag \in Lags : limit_builds(params, lag)
  \/ \E params \in SeriesParams, lag \in Lags : sell_builds(params, lag)
  \/ pass_time

(* ----------------------------- discovery ------------------------------ *)

\* _fetch_market: len(markets) > 50
max_markets == 50

\* get_new_markets: the three filters
Filters ==
  { [categoryNo |-> 1000401001, petSkills |-> 5190016],
    [categoryNo |-> 1000401001, petSkills |-> 5190010],
    [categoryNo |-> 0, petSkills |-> 0] }

\* A listing as the venue returns it.
Listing(category, token_id, price_wei, created_at_ts) ==
  [category |-> category, token_id |-> token_id, price_wei |-> price_wei,
   created_at_ts |-> created_at_ts]

\* Answers of the venue to the explore request: no success, or a list of
\* listings: none, one (with either price and creation time), two of one
\* category, one or two with another category among them, 50 and 51.
FirstListings ==
  { Listing(1000401001, "t1", price, created) :
      price \in {"100", "200"}, created \in {1, 2} }
VenueAnswers ==
  { [success |-> FALSE, items |-> <<>>],
    [success |-> TRUE, items |-> <<>>],
    [success |-> TRUE,
     items |-> <<Listing(1000401001, "t1", "100", 1),
                 Listing(1000401001, "t2", "300", 2)>>],
    [success |-> TRUE, items |-> <<Listing(1000400000, "t1", "100", 1)>>],
    [success |-> TRUE,
     items |-> <<Listing(1000401001, "t1", "100", 1),
                 Listing(1000400000, "t2", "300", 2)>>],
    [success |-> TRUE,
     items |-> <<Listing(1000400000, "t2", "300", 2),
                 Listing(1000401001, "t1", "100", 1)>>],
    [success |-> TRUE,
     items |-> [i \in 1..max_markets |->
                  Listing(1000401001, "t3", "100", 1)]],
    [success |-> TRUE,
     items |-> [i \in 1..(max_markets + 1) |->
                  Listing(1000401001, "t1", "100", 1)]] }
    \cup { [success |-> TRUE, items |-> <<l>>] : l \in FirstListings }

\* OrderService.get_markets: one dict per item of a successful answer, with
\* the keys id, name, token_id, price_wei, minimum_price_wei,
\* last_traded_price_wei, created_at and created_at_ts; the keys read later
\* are kept.  OrderServiceWrapper.get_markets hands the list on.
markets_of(answer) ==
  IF answer.success
    THEN [i \in 1..Len(answer.items) |->
            [token_id |-> answer.items[i].token_id,
             price_wei |-> answer.items[i].price_wei,
             created_at_ts |-> answer.items[i].created_at_ts]]
    ELSE <<>>

\* _fetch_market: the OrderRequest made for a market
market_request(market) ==
  [nft_token_id |-> market.token_id, order_type |-> "market",
   price_wei |-> market.price_wei, created_at_ts |-> market.created_at_ts,
   confirm_real_order |-> TRUE, use_proxy |-> TRUE]

\* _fetch_market after get_markets returned: the comprehension reads
\* market['category_no'] of each market when the filter's categoryNo is not
\* 0, a KeyError for a dict without that key; the except clause logs it.
\* The result is the requests handed to place_order.
fetch_outcome(filter, markets) ==
  LET read == {i \in 1..Len(markets) : filter.categoryNo # 0}
      other_markets ==
        {i \in read : markets[i].category_no # filter.categoryNo}
  IN IF \E i \in read : "category_no" \notin DOMAIN markets[i]
       THEN [end |-> "KeyError", requests |-> <<>>]
     ELSE IF other_markets # {} \/ Len(markets) > max_markets
       THEN [end |-> "return", requests |-> <<>>]
     ELSE IF markets = <<>>
       THEN [end |-> "none", requests |-> <<>>]
     ELSE [end |-> "placing", requests |-> <<market_request(markets[1])>>]

\* Everything but the discovery run.
discovery_frame ==
  <<service_vars, service_cache, services, callers, cleaner, wpc, request,
    order_response, http_status, transport_vars, build, signed, built, strategy, refresh>>

\* TaskRegistry._fetch_market(filter) up to the await of get_markets
fetch_market(filter) ==
  /\ discovery.pc \in {"idle", "done"}
  /\ discovery' = [pc |-> "listing", filter |-> filter]
  /\ UNCHANGED discovery_frame

\* get_markets returned: the checks, and place_order called for the first
\* market.
fetch_market_listed(answer) ==
  /\ discovery.pc = "listing"
  /\ LET out == fetch_outcome(discovery.filter, markets_of(answer))
     IN discovery' = [pc |-> IF out.end = "placing" THEN "placing" ELSE "done",
                      filter |-> discovery.filter, answer |-> answer,
                      end |-> out.end, placed |-> out.requests]
  /\ UNCHANGED discovery_frame

\* place_order returned, with success or not, or raised: the loop is left by
\* its break, or the except clause logs.
fetch_market_placed(success) ==
  /\ discovery.pc = "placing"
  /\ discovery' = [discovery EXCEPT !.pc = "done",
                                    !.end = IF success THEN "bought"
                                                       ELSE "failed"]
  /\ UNCHANGED discovery_frame

DiscoveryNext ==
  \/ \E filter \in Filters : fetch_market(filter)
  \/ \E answer \in VenueAnswers : fetch_market_listed(answer)
  \/ \E success \in BOOLEAN : fetch_market_placed(success)

(* ------------------------- switching strategy ------------------------- *)

\* The strategy types asked for, and the config handed over with them.
StrategyTypes == {"curl_cffi", "CURL_CFFI", "requests"}
SwitchConfigs ==
  { [k \in {} |-> ""], [k \in {"timeout"} |-> "20"] }

\* str.lower on the strategy types
type_lower(strategy_type) ==
  IF strategy_type = "CURL_CFFI" THEN "curl_cffi" ELSE strategy_type

\* RequestStrategyFactory.create: a CurlCffiStrategy, or ValueError
supported(strategy_type) == type_lower(strategy_type) = "curl_cffi"

\* {**self.strategy_config, **config}
merged(old, new) ==
  [k \in (DOMAIN old) \cup (DOMAIN new) |->
     IF k \in DOMAIN new THEN new[k] ELSE old[k]]

\* Everything around the service but its strategy.
strategy_frame ==
  <<service_cache, services, callers, cleaner, wpc, request, order_response,
    http_status, transport_vars, build, signed, built, discovery, refresh>>

\* switch_strategy up to the await of session.close() in destroy()
switch_strategy(strategy_type, config) ==
  /\ pc = "idle"
  /\ Len(strategy.sessions) <= MaxSwitches
  /\ pc' = "switching"
  /\ call' = [SessionCall("switch") EXCEPT !.called_at = now]
  /\ result' = Pending
  /\ strategy' = [strategy EXCEPT
                    !.last = "switching",
                    !.asked = [type |-> strategy_type, config |-> config],
                    !.before = [type |-> strategy.type,
                                config |-> strategy.config,
                                current |-> strategy.current]]
  /\ UNCHANGED <<auth_tokens, cookies, now, pollWake, raceStart, tasks, posts,
                 events>>
  /\ UNCHANGED strategy_frame

\* The session is closed: destroy() sets it to None, strategy_type and
\* strategy_config are assigned, and the factory makes the new transport,
\* with no cookies, whose init() opens its session; or the factory raises
\* ValueError, which ends the call.
switch_resume ==
  /\ pc = "switching"
  /\ pc' = "idle"
  /\ LET closed == [strategy.sessions EXCEPT ![strategy.current] = "none"]
         type   == strategy.asked.type
         config == merged(strategy.config, strategy.asked.config)
     IN IF supported(type)
          THEN /\ strategy' = [strategy EXCEPT
                                 !.type = type, !.config = config,
                                 !.sessions = Append(closed, "open"),
                                 !.current = Len(closed) + 1,
                                 !.last = "switched"]
               /\ cookies' = EmptyJar
               /\ result' = Returned(NoResp)
          ELSE /\ strategy' = [strategy EXCEPT
                                 !.type = type, !.config = config,
                                 !.sessions = closed,
                                 !.last = "failed"]
               /\ result' = Raised("ValueError")
               /\ UNCHANGED cookies
  /\ UNCHANGED <<auth_tokens, now, call, pollWake, raceStart, tasks, posts,
                 events>>
  /\ UNCHANGED strategy_frame

StrategyNext ==
  \/ \E wat \in TokenArgs, wrt \in TokenArgs : set_auth_cookies(wat, wrt)
  \/ clear_auth_tokens
  \/ clear_auth_cookies
  \/ login
  \/ \E raw \in LoginMessageRaws : login_message_response(raw)
  \/ login_message_net_error
  \/ \E raw \in SigninRaws : login_signin_response(raw)
  \/ login_signin_net_error
  \/ \E strategy_type \in StrategyTypes, config \in SwitchConfigs :
       switch_strategy(strategy_type, config)
  \/ switch_resume

(* ------------------------ login beside a race ------------------------- *)

\* The sign-in answers of successive logins: the venue issues a pair of
\* tokens once, or answers without both.
RefreshRaws ==
  SigninRaws \cup
  { [status_code |-> 200, is_json |-> TRUE, message |-> NoneVal,
     wat |-> "wat2", wrt |-> "wrt2"] }

\* The answers of the venue to the buy posts of the race followed here: the
\* order is accepted, or the attempt is blocked and posts again later.
AnswerRaws ==
  {raw \in RawResponses :
     raw.status_code = 200 \/ raw.message = blocked_message}

\* login, lines 477-480: set_cookies with both cookies in one call
login_cookies_access_first(jar, raw) ==
  set_cookies(jar, [n \in {"msu_wat"} |-> raw.wat])
login_cookies(jar, raw) == set_cookies(jar, AuthCookies(raw.wat, raw.wrt))

\* Everything the login beside the race leaves alone but the service.
refresh_frame ==
  <<service_cache, services, callers, cleaner, wpc, request, order_response,
    http_status, transport_vars, build, signed, built, discovery, strategy>>

\* periodic_login_task: login starts while the service is in any call
refresh_login ==
  /\ refresh.pc = "idle"
  /\ refresh' = [refresh EXCEPT !.pc = "login_message"]
  /\ UNCHANGED service_vars
  /\ UNCHANGED refresh_frame

\* get_login_message answered: it raises, or the sign-in post goes out
refresh_message_response(raw) ==
  /\ refresh.pc = "login_message"
  /\ IF login_message_outcome(format_response(raw)).kind = "error"
       THEN refresh' = [refresh EXCEPT !.pc = "idle"]
       ELSE refresh' = [refresh EXCEPT !.pc = "login_signin"]
  /\ UNCHANGED service_vars
  /\ UNCHANGED refresh_frame

\* the sign-in answer: tokens and cookies stored with no await in between
refresh_signin_response(raw) ==
  /\ refresh.pc = "login_signin"
  /\ AuthCookies(raw.wat, raw.wrt) \notin refresh.answers
  /\ IF carries_tokens(raw)
       THEN /\ auth_tokens' = login_tokens(raw)
            /\ cookies' = login_cookies(cookies, raw)
            /\ refresh' = [refresh EXCEPT
                             !.pc = "idle",
                             !.answers = @ \cup {AuthCookies(raw.wat, raw.wrt)}]
       ELSE /\ refresh' = [refresh EXCEPT !.pc = "idle"]
            /\ UNCHANGED <<auth_tokens, cookies>>
  /\ UNCHANGED <<pc, now, call, result, pollWake, raceStart, tasks, posts,
                 events>>
  /\ UNCHANGED refresh_frame

\* either post of the login fails at network level
refresh_net_error ==
  /\ refresh.pc \in {"login_message", "login_signin"}
  /\ refresh' = [refresh EXCEPT !.pc = "idle"]
  /\ UNCHANGED service_vars
  /\ UNCHANGED refresh_frame

(* -------------------------------- time -------------------------------- *)

\* Deadlines of the sleeps in progress.
Deadlines ==
  (IF pc = "polling" THEN {pollWake} ELSE {})
    \cup {tasks[i].wakeAt : i \in {j \in TaskIds : Sleeping(tasks[j])}}

\* A callback is ready to run: a created task's first step, a sleep whose
\* deadline has come, the coordinator's wake-up after a task finished, a
\* CancelledError to deliver.  The loop does not wait while one is ready.
ReadyWork ==
  \/ ~AllStarted
  \/ \E i \in TaskIds : Sleeping(tasks[i]) /\ tasks[i].wakeAt <= now
  \/ \E i \in TaskIds : tasks[i].st = "cancelling"
  \/ pc = "waiting" /\ DoneSet # {}
  \/ pc = "polling" /\ pollWake <= now

\* With nothing ready the loop waits, and the clock moves on to the deadline
\* of some sleep in progress.
Tick ==
  /\ ~ReadyWork
  /\ \E d \in Deadlines : d > now /\ now' = d
  /\ UNCHANGED <<auth_tokens, cookies, pc, call, pollWake, raceStart, tasks,
                 posts, events, result>>
  /\ UNCHANGED wrapper_vars

(* ---------------------------- specification --------------------------- *)

Next ==
  \/ \E wat \in TokenArgs, wrt \in TokenArgs : set_auth_cookies(wat, wrt)
  \/ clear_auth_tokens
  \/ clear_auth_cookies
  \/ login
  \/ \E raw \in LoginMessageRaws : login_message_response(raw)
  \/ login_message_net_error
  \/ \E raw \in SigninRaws : login_signin_response(raw)
  \/ login_signin_net_error
  \/ get_item_details
  \/ \E raw \in ItemRaws : item_response(raw)
  \/ item_net_error
  \/ get_markets
  \/ \E raw \in RawResponses : markets_response(raw)
  \/ markets_net_error
  \/ \E confirm \in BOOLEAN, n \in 0..MaxTasks, c \in CreatedAtChoices,
        build_ok \in BOOLEAN : place_market_order(confirm, n, c, build_ok)
  \/ \E confirm \in BOOLEAN, build_ok \in BOOLEAN :
        place_limit_order(confirm, build_ok)
  \/ \E confirm \in BOOLEAN, build_ok \in BOOLEAN :
        place_sell_order(confirm, build_ok)
  \/ \E raw \in RawResponses : single_response(raw)
  \/ single_net_error
  \/ poll_wake
  \/ \E i \in 0..(MaxTasks - 1) : start_task(i)
  \/ \E i \in 0..(MaxTasks - 1) : stagger_wake(i)
  \/ \E i \in 0..(MaxTasks - 1), raw \in RawResponses : buy_response(i, raw)
  \/ \E i \in 0..(MaxTasks - 1) : buy_net_error(i)
  \/ \E i \in 0..(MaxTasks - 1) : cooldown_wake(i)
  \/ wait_returns
  \/ \E i \in 0..(MaxTasks - 1) : deliver_cancel(i)
  \/ Tick

Spec == Init /\ [][Next]_vars

\* The registry of the wrapper under concurrent calls.
RegistrySpec == Init /\ [][RegistryNext]_vars

\* One place_order call of the wrapper, after create_service or without it.
PlaceOrderNext ==
  \/ create_service
  \/ create_service_resume
  \/ \E req \in Requests : place_order(req)
  \/ \E args \in OrderArgs : create_order(args)
  \/ \E confirm \in BOOLEAN, require \in BOOLEAN :
        create_sell_order(confirm, require)
  \/ create_order_resume
  \/ get_or_create_resume
  \/ login_resume
  \/ item_details_resume
  \/ order_resume
  \/ service_login
  \/ \E raw \in LoginMessageRaws : login_message_response(raw)
  \/ login_message_net_error
  \/ \E raw \in SigninRaws : login_signin_response(raw)
  \/ login_signin_net_error
  \/ service_get_item_details
  \/ \E raw \in ItemRaws : item_response(raw)
  \/ item_net_error
  \/ \E build_ok \in BOOLEAN : service_place_market_order(build_ok)
  \/ \E build_ok \in BOOLEAN : service_place_limit_order(build_ok)
  \/ \E raw \in RawResponses \cup AbuseRaws : single_response(raw)
  \/ single_net_error
  \/ poll_wake
  \/ \E i \in 0..(MaxTasks - 1) : start_task(i)
  \/ \E i \in 0..(MaxTasks - 1) : stagger_wake(i)
  \/ \E i \in 0..(MaxTasks - 1), raw \in RawResponses : buy_response(i, raw)
  \/ \E i \in 0..(MaxTasks - 1) : buy_net_error(i)
  \/ \E i \in 0..(MaxTasks - 1) : cooldown_wake(i)
  \/ wait_returns
  \/ \E i \in 0..(MaxTasks - 1) : deliver_cancel(i)
  \/ Tick

PlaceOrderSpec == Init /\ [][PlaceOrderNext]_vars

\* The transport on its own: the proxy source, the pool and one get/post.
TransportSpec == Init /\ [][TransportNext]_vars

\* The order builder on its own: create_order and get_timestamp.
BuildSpec == Init /\ [][BuildNext]_vars

\* sign_order on its own, between session calls and as time passes.
SignSpec == Init /\ [][SignNext]_vars

\* The orders one service builds one after the other, as time passes or not.
SeriesSpec == Init /\ [][SeriesNext]_vars

\* One discovery run after the other, for any filter and any answer.
DiscoverySpec == Init /\ [][DiscoveryNext]_vars

\* A race of one service whose caller may be cancelled from outside.
CancelNext ==
  \/ \E c \in CreatedAtChoices, n \in 1..MaxTasks :
       place_market_order(TRUE, n, c, TRUE)
  \/ poll_wake
  \/ \E i \in 0..(MaxTasks - 1) : start_task(i)
  \/ \E i \in 0..(MaxTasks - 1) : stagger_wake(i)
  \/ \E i \in 0..(MaxTasks - 1), raw \in RawResponses : buy_response(i, raw)
  \/ \E i \in 0..(MaxTasks - 1) : buy_net_error(i)
  \/ \E i \in 0..(MaxTasks - 1) : cooldown_wake(i)
  \/ wait_returns
  \/ \E i \in 0..(MaxTasks - 1) : deliver_cancel(i)
  \/ cancel_call
  \/ \E wat \in TokenArgs, wrt \in TokenArgs : set_auth_cookies(wat, wrt)
  \/ Tick

CancelSpec == Init /\ [][CancelNext]_vars

\* A race of one service with logins of the scheduler running beside it.
RefreshNext ==
  \/ \E c \in CreatedAtChoices : place_market_order(TRUE, MaxTasks, c, TRUE)
  \/ poll_wake
  \/ \E i \in 0..(MaxTasks - 1) : start_task(i)
  \/ \E i \in 0..(MaxTasks - 1) : stagger_wake(i)
  \/ \E i \in 0..(MaxTasks - 1), raw \in AnswerRaws : buy_response(i, raw)
  \/ \E i \in 0..(MaxTasks - 1) : cooldown_wake(i)
  \/ wait_returns
  \/ \E i \in 0..(MaxTasks - 1) : deliver_cancel(i)
  \/ Tick
  \/ refresh_login
  \/ \E raw \in LoginMessageRaws : refresh_message_response(raw)
  \/ \E raw \in RefreshRaws : refresh_signin_response(raw)
  \/ refresh_net_error

RefreshSpec == Init /\ [][RefreshNext]_vars

\* The session operations of one service and switch_strategy, in any order.
StrategySpec == Init /\ [][StrategyNext]_vars

(* ------------------------------- claims ------------------------------- *)

Finished == pc \in {"returned", "raised"}
PlacementOps == {"market", "limit", "sell"}
Called   == call.op \in PlacementOps
BuyPosts == {p \in 1..Len(posts) : posts[p].url = "buy"}

\* C1: a placement operation called with the confirmation flag false fails
\* at once with the security-check error, whatever the session and the
\* parameters are: no post is issued by the call or after it, no attempt is
\* created, and tokens and cookies stay as they were.
C1_UnconfirmedFailsFirst ==
  /\ [][ (pc = "idle" /\ call'.op \in PlacementOps /\ ~call'.confirm)
           => /\ pc' = "raised"
              /\ result' = Raised("SecurityCheckFailed")
              /\ posts' = posts
              /\ tasks' = tasks
              /\ auth_tokens' = auth_tokens
              /\ cookies' = cookies ]_vars
  /\ []((Called /\ ~call.confirm)
           => pc = "raised" /\ posts = <<>> /\ tasks = NoTasks)

\* C1 witness: an authenticated instance with cookies set had its
\* unconfirmed market order refused.
C1_Witness ==
  /\ call.op = "market" /\ ~call.confirm /\ call.concurrent_tasks > 0
  /\ pc = "raised" /\ result.err = "SecurityCheckFailed"
  /\ auth_tokens.wat = "tok" /\ auth_tokens.wrt = "tok"
  /\ cookies # EmptyJar

\* C2: a confirmed placement operation called while the access token or the
\* refresh token is missing fails at once with the authentication error:
\* no cooldown wait is entered, no attempt is created, no post is issued.
C2_UnauthenticatedFailsFirst ==
  /\ [][ (/\ pc = "idle" /\ call'.op \in PlacementOps /\ call'.confirm
          /\ \/ auth_tokens.wat \in {NoneVal, ""}
             \/ auth_tokens.wrt \in {NoneVal, ""})
           => /\ pc' = "raised"
              /\ result' = Raised("AuthenticationRequired")
              /\ posts' = posts
              /\ tasks' = tasks
              /\ pollWake' = pollWake
              /\ raceStart' = raceStart ]_vars
  /\ []((/\ Called /\ call.confirm
         /\ \/ auth_tokens.wat \in {NoneVal, ""}
            \/ auth_tokens.wrt \in {NoneVal, ""})
           => pc = "raised" /\ posts = <<>> /\ tasks = NoTasks /\ raceStart = -1)

\* C2 witness: a confirmed market order was refused with only the access
\* token present.
C2_Witness ==
  /\ call.op = "market" /\ call.confirm /\ call.concurrent_tasks > 0
  /\ pc = "raised" /\ result.err = "AuthenticationRequired"
  /\ auth_tokens.wat = "tok" /\ auth_tokens.wrt = ""

RaceOver == Finished /\ call.op = "market" /\ raceStart >= 0

\* An answer that is not the "not ready for sale" message.
NotBlocked(e) ==
  /\ e.kind = "response"
  /\ ~(e.resp.data.shape = "dict" /\ e.resp.data.message = blocked_message)

\* A submission that failed: the blocked message or a transport error.
SubmissionFailed(e) ==
  \/ e.kind = "neterror"
  \/ e.kind = "response" /\ e.resp.data.shape = "dict"
       /\ e.resp.data.message = blocked_message

FirstNotBlocked ==
  CHOOSE n \in 1..Len(events) :
    NotBlocked(events[n]) /\ \A m \in 1..(n - 1) : ~NotBlocked(events[m])

\* C3: when the race is over and attempt k was the first to get an answer
\* other than the blocked message, place_market_order has returned exactly
\* k's response and every other attempt has been cancelled, not completed.
C3_FirstResponseWins ==
  (RaceOver /\ \E n \in 1..Len(events) : NotBlocked(events[n]))
    => LET e == events[FirstNotBlocked]
       IN /\ pc = "returned"
          /\ result = Returned(e.resp)
          /\ \A j \in TaskIds \ {e.task} :
               tasks[j].st \in {"cancelling", "cancelled"}

C10_AnyOtherResponseIsOutcome ==
  \A n \in 1..Len(events) :
    LET e == events[n]
        t == tasks[e.task]
    IN e.kind = "response" =>
         IF e.resp.data.shape = "dict" /\ e.resp.data.message = blocked_message
           THEN t.outcome.kind = "error"
           ELSE t.st = "done" /\ t.outcome = Returned(e.resp)

PostsOf(i) == {p \in BuyPosts : posts[p].task = i}

\* C5 as stated: once the race is over, one attempt ended it and every
\* other attempt has been cancelled, none of them having submitted if it was
\* cancelled during its stagger delay.
C5_AllOthersCancelled ==
  (RaceOver /\ TaskIds # {})
    => \E w \in TaskIds :
         /\ Done(tasks[w]) /\ tasks[w].outcome = result
         /\ \A i \in TaskIds \ {w} :
              /\ tasks[i].st \in {"cancelling", "cancelled"}
              /\ tasks[i].cancelledIn = "staggering" => PostsOf(i) = {}

\* C5 amended: once the race is over no further buy post is issued; every
\* attempt has by then either completed on its own or been cancelled, and an
\* attempt cancelled during its stagger delay has never submitted.
C5_NoSubmissionAfterRace ==
  /\ [][ RaceOver => posts' = posts ]_vars
  /\ [](RaceOver =>
          \A i \in TaskIds :
            /\ tasks[i].st \in {"done", "cancelling", "cancelled"}
            /\ tasks[i].cancelledIn = "staggering" => PostsOf(i) = {})

\* C5 witness: the race is over, the winner's response is returned, and an
\* attempt cancelled in its stagger delay is gone without a submission.
C5_Witness ==
  /\ RaceOver /\ pc = "returned"
  /\ \E i \in TaskIds :
       /\ tasks[i].st = "cancelled" /\ tasks[i].cancelledIn = "staggering"
       /\ PostsOf(i) = {}

\* C6: when place_market_order raises after the attempts were launched,
\* every attempt still pending at that moment is cancelled in the same step,
\* so none is pending when the caller sees the error.
C6_ErrorCancelsPending ==
  /\ [][ (pc = "waiting" /\ pc' = "raised")
           => \A i \in TaskIds :
                Live(tasks[i]) => tasks'[i].st = "cancelling" ]_vars
  /\ []((pc = "raised" /\ call.op = "market" /\ raceStart >= 0)
           => \A i \in TaskIds : ~Live(tasks[i]))

\* C6 witness: the race raised and an in-flight attempt was cancelled.
C6_Witness ==
  /\ pc = "raised" /\ RaceOver
  /\ \E i \in TaskIds :
       tasks[i].st = "cancelling" /\ tasks[i].cancelledIn = "inflight"

\* C7: no attempt exists and no buy post is issued before the clock reaches
\* created_at_ts + 30 s; a confirmed, authenticated call made at or after
\* that deadline launches the attempts in the same step, without sleeping.
C7_CooldownBeforeLaunch ==
  /\ []((call.op = "market" /\ (raceStart >= 0 \/ tasks # NoTasks \/ posts # <<>>))
          => /\ raceStart >= call.created_at_ts * 1000 + 30000
             /\ \A p \in BuyPosts :
                  posts[p].at >= call.created_at_ts * 1000 + 30000)
  /\ [](pc = "polling" => tasks = NoTasks /\ posts = <<>> /\ raceStart = -1)
  /\ [][ (/\ pc = "idle" /\ call'.op = "market" /\ call'.confirm
          /\ auth_tokens.wat \notin {NoneVal, ""}
          /\ auth_tokens.wrt \notin {NoneVal, ""}
          /\ now >= call'.created_at_ts * 1000 + 30000)
           => /\ raceStart' = now
              /\ pc' # "polling"
              /\ DOMAIN tasks' = 0..(call'.concurrent_tasks - 1) ]_vars

\* C7 witness: a call made before the deadline launched exactly at it and
\* an attempt has submitted.
C7_Witness ==
  /\ call.op = "market" /\ call.called_at < raceStart
  /\ raceStart = call.created_at_ts * 1000 + 30000
  /\ BuyPosts # {}

\* C8: a race with concurrency N has the attempts 0..N-1, attempt i with
\* delay 10 i ms; attempt i submits no earlier than 10 i ms after the race
\* start, and submissions are issued in increasing attempt order.
C8_StaggeredLaunch ==
  (call.op = "market" /\ raceStart >= 0)
    => /\ TaskIds = 0..(call.concurrent_tasks - 1)
       /\ \A i \in TaskIds : tasks[i].delay = 10 * i
       /\ \A p \in BuyPosts : posts[p].at >= raceStart + 10 * posts[p].task
       /\ \A p, q \in BuyPosts : p < q => posts[p].task < posts[q].task

\* C8 witness: attempts 0 and 1 have both submitted, in that order.
C8_Witness ==
  /\ call.op = "market" /\ Len(posts) = 2
  /\ posts[1].task = 0 /\ posts[2].task = 1
  /\ posts[2].at >= raceStart + 10

\* C9: every attempt issues at most one buy post, so a race with
\* concurrency N issues at most N of them.
C9_OneSubmissionPerAttempt ==
  call.op = "market"
    => /\ \A i \in TaskIds : Cardinality(PostsOf(i)) <= 1
       /\ Cardinality(BuyPosts) <= call.concurrent_tasks

\* C9 witness: an attempt whose submission failed has completed as failed
\* with its single post, and all N attempts have submitted.
C9_Witness ==
  /\ call.op = "market" /\ call.concurrent_tasks = 2
  /\ Cardinality(BuyPosts) = 2
  /\ \E i \in TaskIds :
       /\ Done(tasks[i]) /\ tasks[i].outcome.kind = "error"
       /\ Cardinality(PostsOf(i)) = 1

\* Attempts whose submission has failed: a transport error, or an answer the
\* attempt turned into an exception.
FailedSubmissions ==
  {n \in 1..Len(events) :
     \/ events[n].kind = "neterror"
     \/ attempt_outcome(events[n].resp).kind = "error"}

\* C11: an attempt whose submission failed stays pending while fewer than
\* 5000 ms have passed since the failure, completes as failed only in a step
\* taken 5000 ms or more after it, and the coordinator takes such a failure
\* as the race's result no earlier than that.
C11_FailureSurfacesAfterCooldown ==
  /\ [](\A n \in FailedSubmissions :
         LET t == tasks[events[n].task]
         IN /\ t.st \in {"cooldown", "done", "cancelling", "cancelled"}
            /\ t.outcome.kind = "error"
            /\ now < events[n].at + 5000 => t.st # "done")
  /\ [][ \A n \in FailedSubmissions :
           LET i == events[n].task
           IN /\ (tasks[i].st # "done" /\ tasks'[i].st = "done")
                   => now >= events[n].at + 5000
              /\ (pc = "waiting" /\ pc' = "raised" /\ result' = tasks[i].outcome
                   /\ Done(tasks[i]))
                   => now >= events[n].at + 5000 ]_vars

\* C11 witness: an attempt answered with the blocked message has completed
\* as failed, 5000 ms after the answer, and the coordinator raised it.
C11_Witness ==
  /\ pc = "raised" /\ RaceOver
  /\ \E n \in FailedSubmissions :
       /\ events[n].kind = "response"
       /\ events[n].resp.data.message = blocked_message
       /\ Done(tasks[events[n].task])
       /\ result = tasks[events[n].task].outcome
       /\ now = events[n].at + 5000

\* A token is present when it is neither None nor the empty string.
Present(t) == t \notin {NoneVal, ""}

\* C12: in every state the session operations lead to, is_authenticated is
\* true exactly when the access token and the refresh token are both
\* present, and it is false right after clear_auth_tokens and after
\* clear_auth_cookies.
C12_AuthenticatedIffBothTokens ==
  /\ [](is_authenticated(auth_tokens)
          <=> (Present(auth_tokens.wat) /\ Present(auth_tokens.wrt)))
  /\ [][ (clear_auth_tokens \/ clear_auth_cookies)
           => ~is_authenticated(auth_tokens') ]_vars

\* C12 witness: a login stored both tokens and a clear followed: the cookies
\* of the login are still in the jar, the tokens are gone and
\* is_authenticated is false.
C12_Witness ==
  /\ pc = "idle" /\ call.op = "login" /\ result.kind = "response"
  /\ "msu_wat" \in DOMAIN cookies /\ cookies["msu_wat"] = "wat1"
  /\ auth_tokens = [wat |-> NoneVal, wrt |-> NoneVal]
  /\ ~is_authenticated(auth_tokens)

\* C13: a login whose sign-in answer carries both tokens ends with the stored
\* tokens equal to the answer's, the cookie jar mapping msu_wat and msu_wrt
\* to those values, and is_authenticated true.
C13_LoginStoresTokens ==
  [][ \A raw \in SigninRaws :
        (/\ login_signin_response(raw)
         /\ raw.is_json /\ Present(raw.wat) /\ Present(raw.wrt))
          => /\ auth_tokens'.wat = raw.wat
             /\ auth_tokens'.wrt = raw.wrt
             /\ {"msu_wat", "msu_wrt"} \subseteq DOMAIN cookies'
             /\ cookies'["msu_wat"] = raw.wat
             /\ cookies'["msu_wrt"] = raw.wrt
             /\ is_authenticated(auth_tokens')
             /\ pc' = "idle"
             /\ result' = Returned(format_response(raw)) ]_vars

\* C13 witness: a login has returned and the tokens and the cookies are
\* those of the sign-in answer.
C13_Witness ==
  /\ pc = "idle" /\ call.op = "login" /\ result.kind = "response"
  /\ auth_tokens = [wat |-> "wat1", wrt |-> "wrt1"]
  /\ cookies = AuthCookies("wat1", "wrt1")

\* A sign-in answer with which login cannot complete: a status that is not a
\* success, a body that is not JSON, or a body without one of the tokens.
SigninFailed(raw) ==
  \/ ~format_response(raw).success
  \/ ~raw.is_json
  \/ ~Present(raw.wat)
  \/ ~Present(raw.wrt)

\* C14: a login that cannot complete ends with an error raised to the
\* caller: when the challenge request or the sign-in request fails at
\* network level, when the venue answers either with a status that is not a
\* success, when a body cannot be parsed or lacks the message or a token.
C14_FailedLoginRaises ==
  [][ /\ (login_message_net_error \/ login_signin_net_error)
         => result'.kind = "error"
      /\ \A raw \in LoginMessageRaws :
           (/\ login_message_response(raw)
            /\ \/ ~format_response(raw).success
               \/ ~raw.is_json
               \/ raw.message = NoneVal)
             => pc' = "idle" /\ result'.kind = "error"
      /\ \A raw \in SigninRaws :
           (login_signin_response(raw) /\ SigninFailed(raw))
             => result'.kind = "error" ]_vars

\* The posts that submit an order: buy, limit offer, sell registration.
Submissions == {p \in 1..Len(posts) : posts[p].url \in {"buy", "offer", "register"}}

CarriesCookiePair(p) ==
  /\ {"msu_wat", "msu_wrt"} \subseteq DOMAIN posts[p].cookies
  /\ posts[p].cookies["msu_wat"] = auth_tokens.wat
  /\ posts[p].cookies["msu_wrt"] = auth_tokens.wrt

C16_TokensChangeOnlyBySessionOps ==
  /\ [][ auth_tokens' # auth_tokens
           => \/ \E raw \in SigninRaws : login_signin_response(raw)
              \/ \E wat \in TokenArgs, wrt \in TokenArgs :
                   set_auth_cookies(wat, wrt)
              \/ clear_auth_tokens
              \/ clear_auth_cookies ]_vars
  /\ [][ (\/ /\ pc # "idle" \/ call' # call
             /\ call'.op \in PlacementOps \cup {"lookup", "listing"}
          \/ now' # now)
           => auth_tokens' = auth_tokens ]_vars

\* C16 witness: a race run on tokens obtained by login was answered with
\* failures only and has ended 5 s later; the tokens are still those.
C16_Witness ==
  /\ RaceOver /\ pc = "raised"
  /\ now >= raceStart + 5000
  /\ \E n \in 1..Len(events) :
       events[n].kind = "response" /\ events[n].resp.status = 403
  /\ auth_tokens = [wat |-> "wat1", wrt |-> "wrt1"]

\* C17: while no cleanup has run and no creation has failed, at most one
\* instance has been constructed for a credential, all calls made with the
\* same credential have received the same instance, and the keys of the
\* cache are digests of the credentials, never the credentials.
C17_OneInstancePerIdentity ==
  (cleaner.pc = "none" /\ \A c \in CallerIds : callers[c].pc # "raised")
    => /\ \A a, b \in DOMAIN services :
            services[a].key = services[b].key => a = b
       /\ \A a, b \in CallerIds :
            (/\ callers[a].pc = "returned" /\ callers[b].pc = "returned"
             /\ callers[a].private_key = callers[b].private_key)
              => callers[a].service = callers[b].service
       /\ \A n \in 1..Len(service_cache) :
            /\ service_cache[n].key \notin Credentials
            /\ \E k \in Credentials : service_cache[n].key = cache_key(k)

\* C18: a call that constructed an instance and whose login did not
\* authenticate it has returned that instance and left the identity cached.
C18_FailedLoginStillCached ==
  \A c \in DOMAIN services :
    (/\ cleaner.pc = "none"
     /\ callers[c].pc \in {"returned", "raised"}
     /\ ~is_authenticated(services[c].tokens))
      => /\ callers[c].pc = "returned"
         /\ services[c].key \in CacheKeys

\* C19: when cleanup has returned, destroy has been invoked on every instance
\* that was cached when cleanup was called.
C19_CleanupDestroysAll ==
  cleaner.pc = "returned" => cleaner.at_call \subseteq cleaner.destroyed


\* C20: place_order never raises: once it is over it has returned an
\* OrderResponse; an unsuccessful one carries an error code of the fixed
\* set, and a successful one answers a submission the venue accepted with a
\* 2xx status.  Cancellation of the calling task is outside this statement.
C20_PlaceOrderAlwaysResponds ==
  /\ wpc # "raised"
  /\ wpc = "responded" =>
       /\ order_response.given
       /\ ~order_response.success => order_response.error_code \in ErrorCodes
       /\ order_response.success =>
            /\ pc = "returned"
            /\ result.kind = "response"
            /\ 200 <= result.resp.status /\ result.resp.status < 300

\* An exception of the race of a market order came back as a response.
C20_Witness ==
  /\ wpc = "responded"
  /\ request.order_type = "market"
  /\ pc = "raised"
  /\ result.err = "NetworkError"
  /\ ~order_response.success
  /\ order_response.error_code = "UNKNOWN_ERROR"


\* The answers of the venue that the finished placement surfaced: the one
\* answer of a limit offer, or the answers of the buy attempts of a race.
SubmissionStatuses ==
  IF request.order_type = "limit"
    THEN IF pc = "returned" THEN {result.resp.status} ELSE {}
    ELSE {events[n].resp.status :
            n \in {m \in 1..Len(events) : events[m].kind = "response"}}

\* C21: a 429 or 403 of the venue on any call made for an order, the
\* submission included, is reported as RATE_LIMITED or REQUEST_BLOCKED.
C21_AbuseStatusClassified ==
  wpc = "responded" =>
    /\ (result.kind = "error" /\ result.err = "RateLimited")
         => order_response.error_code = "RATE_LIMITED"
    /\ (result.kind = "error" /\ result.err = "RequestBlocked")
         => order_response.error_code = "REQUEST_BLOCKED"
    /\ (pc \in {"returned", "raised"} /\ SubmissionStatuses = {429})
         => order_response.error_code = "RATE_LIMITED"
    /\ (pc \in {"returned", "raised"} /\ SubmissionStatuses = {403})
         => order_response.error_code = "REQUEST_BLOCKED"


\* The causes the endpoints are to answer with bad request: a parameter
\* error or a failed security check, found by the request's validators or
\* reported by place_order.
BadRequestCause ==
  \/ ~validate_confirmation(request)
  \/ ~validate_amount_for_limit_order(request)
  \/ order_response.error_code \in {"INVALID_PARAMETERS", "SECURITY_CHECK_FAILED"}

\* C22: an unsuccessful order is answered 400 for invalid parameters or a
\* failed security check, 401 for missing authentication, 429 for
\* RATE_LIMITED, 403 for REQUEST_BLOCKED, and 500 only for what remains.
C22_StatusByCause ==
  (wpc = "answered" /\ ~order_response.success) =>
    /\ BadRequestCause => http_status = 400
    /\ order_response.error_code = "AUTHENTICATION_REQUIRED" => http_status = 401
    /\ order_response.error_code = "RATE_LIMITED" => http_status = 429
    /\ order_response.error_code = "REQUEST_BLOCKED" => http_status = 403
    /\ http_status = 500 =>
         /\ ~BadRequestCause
         /\ order_response.error_code \notin
              {"AUTHENTICATION_REQUIRED", "RATE_LIMITED", "REQUEST_BLOCKED"}


\* The lines of a source that are neither blank nor comments.
UsableLines(lines) ==
  {n \in 1..Len(lines) :
     strip(lines[n]) # <<>> /\ ~startswith(strip(lines[n]), "#")}

\* The source is still as the last read found it.
ReadStands == reading.op # "none" /\ ~reading.dirty

\* C23: get_random_proxy returns none when the source is missing or has no
\* usable line, and a member of the loaded pool otherwise; get_proxy_count
\* is the pool's size and is_available says whether it is positive.
C23_RandomProxyFromPool ==
  /\ (ReadStands /\ reading.op = "get_random_proxy") =>
       IF ~proxy_file.exists \/ UsableLines(proxy_file.lines) = {}
         THEN reading.proxy = <<>>
         ELSE \E n \in 1..Len(reading.pool) : reading.proxy = reading.pool[n]
  /\ reading.op = "get_proxy_count" => reading.count = Len(reading.pool)
  /\ reading.op = "is_available" =>
       (reading.available <=> Len(reading.pool) > 0)

\* C24: a read parses the source exactly when its modification time differs
\* from the one recorded at the last parse; the second of two reads with no
\* modification between them does not parse; and after a read of an
\* existing source the pool is the content of the source.
C24_ReloadOnlyOnModification ==
  ReadStands =>
    /\ reading.parsed <=>
         (proxy_file.exists /\ proxy_file.mtime # reading.recorded)
    /\ reading.consecutive => ~reading.parsed
    /\ proxy_file.exists => _proxies = parse(proxy_file.lines)

\* The pool holds, in the order of the source, what `entry` makes of each
\* usable line, stripped.
PoolHolds(entry(_)) ==
  LET lines == proxy_file.lines
      kept  == UsableLines(lines)
  IN /\ Len(_proxies) = Cardinality(kept)
     /\ \A n \in kept :
          _proxies[Cardinality({m \in kept : m <= n})] = entry(strip(lines[n]))

\* A line names a scheme of its own.
HasScheme(line) == Head(line) \in {"http://", "https://", "socks5://"}

\* The pool was parsed from the source as it is now.
PoolLoaded == ReadStands /\ proxy_file.exists /\ _last_modified = proxy_file.mtime
                /\ reading.ever_parsed

BeginsWithHttp(p) == startswith(p, "http://") \/ startswith(p, "https://")

EntryByScheme(line) ==
  IF HasScheme(line) THEN line ELSE <<"http://">> \o line

EntryByHttp(line) ==
  IF BeginsWithHttp(line) THEN line ELSE <<"http://">> \o line

\* C25 as stated: every entry begins with http:// or https://, blank and
\* comment lines never enter, a line without a scheme enters prefixed with
\* http://, a line with a scheme enters unchanged, in the source's order.
C25_SchemeLinesUnchanged ==
  PoolLoaded =>
    /\ \A n \in 1..Len(_proxies) : BeginsWithHttp(_proxies[n])
    /\ PoolHolds(EntryByScheme)

\* C25 amended: every entry begins with http:// or https://, blank and
\* comment lines never enter, a stripped line that begins with http:// or
\* https:// enters as it is, every other line, one naming another scheme
\* included, enters prefixed with http://, in the source's order.
C25_HttpLinesUnchanged ==
  PoolLoaded =>
    /\ \A n \in 1..Len(_proxies) : BeginsWithHttp(_proxies[n])
    /\ PoolHolds(EntryByHttp)

\* A source with an https line and a socks5 line was parsed.
C25_Witness ==
  /\ PoolLoaded
  /\ reading.parsed
  /\ proxy_file.lines = <<https_line, socks_line>>
  /\ Len(_proxies) = 2

\* C26: a get/post attaches a proxy exactly when proxying is enabled and
\* the pool read for that call is not empty, and the proxy is a member of
\* that pool; with proxying disabled no call attaches one.
C26_ProxyAttachedWhenEnabled ==
  [][(transfer.pc # "inflight" /\ transfer'.pc = "inflight") =>
       /\ transfer'.proxy # <<>> <=> (use_proxy /\ load_proxies.ret # <<>>)
       /\ transfer'.proxy # <<>> =>
            \E n \in 1..Len(load_proxies.ret) :
              transfer'.proxy = load_proxies.ret[n]
       /\ ~use_proxy => transfer'.proxy = <<>>]_vars

\* A call went out through the second proxy of a pool of two, and proxying
\* has been disabled since.
C26_Witness ==
  /\ transfer.pc = "inflight"
  /\ Len(transfer.pool) = 2
  /\ transfer.proxy = transfer.pool[2]
  /\ ~use_proxy

\* C27: every get/post issues one request; a network failure of it is
\* raised with no second request, and a completed one returns a result
\* whose success flag says 200 <= status < 300.
C27_OneRequestNoRetry ==
  /\ transfer.requests <= 1
  /\ transfer.pc # "idle" => transfer.requests = 1
  /\ transfer.pc = "raised" => transfer.result = Raised("NetworkError")
  /\ transfer.pc = "returned" =>
       /\ transfer.result.kind = "response"
       /\ transfer.result.resp.success <=>
            (200 <= transfer.result.resp.status
               /\ transfer.result.resp.status < 300)

\* A call failed at network level after its one request.
C27_Witness ==
  /\ transfer.pc = "raised"
  /\ transfer.requests = 1

\* An order builder has run and returned an order.
Built == build.op \in {"market", "limit", "sell"} /\ build.out.kind = "order"

\* floor(amount * 10^18) of a decimal numeral with d <= 18 digits after the
\* point, as decimal digits: the numeral's digits followed by 18 - d zeros,
\* without leading zeros.
FloorWei(amount) ==
  LET ds == amount.digits \o [i \in 1..(18 - amount.d) |-> 0]
      nz == {i \in 1..Len(ds) : ds[i] # 0}
  IN IF nz = {} THEN <<0>>
     ELSE SubSeq(ds, CHOOSE i \in nz : \A j \in nz : i <= j, Len(ds))

\* C28: in every order built, tokenAmount is the pre-scaled quantity as it was
\* given whenever one was given (also next to a human quantity), and otherwise
\* the decimal digits of floor(amount * 10^18) of the human quantity.
C28_TokenAmountScaled ==
  Built =>
    IF build.params.token_amount # Absent
      THEN build.out.tokenAmount = build.params.token_amount.digits
      ELSE build.out.tokenAmount = FloorWei(build.params.amount)

\* The human quantity as the numeral states it: its sign, its whole part
\* and whether digits other than 0 follow the point.
WholePart(amount) ==
  SmallDecimal(SubSeq(amount.digits, 1, Len(amount.digits) - amount.d))
HasFraction(amount) ==
  \E i \in (Len(amount.digits) - amount.d + 1)..Len(amount.digits) :
    amount.digits[i] # 0
IsNegative(amount) ==
  amount.valid /\ amount.neg /\ \E i \in 1..Len(amount.digits) :
                                  amount.digits[i] # 0
ExceedsCeiling(amount) ==
  /\ amount.valid /\ ~amount.neg
  /\ \/ WholePart(amount) > MAX_REASONABLE_AMOUNT
     \/ WholePart(amount) = MAX_REASONABLE_AMOUNT /\ HasFraction(amount)
AtCeilingOrZero(amount) ==
  /\ amount.valid /\ ~HasFraction(amount)
  /\ WholePart(amount) \in {0, MAX_REASONABLE_AMOUNT}

\* A builder ran on a human quantity alone, or on no quantity.
BuiltFromAmount ==
  /\ build.op \in {"market", "limit", "sell"}
  /\ build.params.token_amount = Absent

\* C29: a build given no quantity, a negative human quantity or one above
\* the ceiling of 1,000,000,000 ends in a ValueError; a human quantity equal
\* to the ceiling or to zero gives an order; and a build sends nothing and
\* writes nothing outside its own result.
C29_BuildRejects ==
  /\ [](BuiltFromAmount =>
          /\ (\/ build.params.amount = Absent
              \/ IsNegative(build.params.amount)
              \/ ExceedsCeiling(build.params.amount))
               => /\ build.out.kind = "error"
                  /\ build.out.err = "ValueError"
          /\ (build.params.amount # Absent
                /\ AtCeilingOrZero(build.params.amount))
               => build.out.kind = "order")
  /\ [][build' # build => UNCHANGED build_frame]_vars

\* C30: the expiry of an order is its listing time plus the number of days
\* times 86400 seconds, with 3 days for a market and a limit order and 14
\* for a sell order; get_timestamp(n) gives sec + n * 86400 for every whole
\* n, negative ones too, and raises TypeError for an n that is no number.
C30_ExpiryExact ==
  /\ build.op \in {"market", "limit"} => build.expire_days = 3
  /\ build.op = "sell" => build.expire_days = 14
  /\ Built =>
       SmallDecimal(build.out.expirationTime)
           - SmallDecimal(build.out.listingTime)
         = build.expire_days * 86400
  /\ build.op = "get_timestamp" =>
       IF build.numeric
         THEN /\ build.out.kind = "timestamp"
              /\ build.out.info.after_days_sec - build.out.info.sec
                   = build.expire_days * 86400
         ELSE build.out.kind = "error" /\ build.out.err = "TypeError"

\* A sell order was built, its times read across the turn of a second.
C30_Witness ==
  /\ Built
  /\ build.op = "sell"
  /\ build.expire_days = 14
  /\ SmallDecimal(build.out.listingTime) * 1000
       > SmallDecimal(build.out.salt)

C39_MessageCarriesOrder ==
  /\ \A i \in 1..Len(signed) :
       LET order == signed[i].order
           message == signed[i].message
       IN /\ message.isSeller = (IF order.isSeller THEN 1 ELSE 0)
          /\ message.maker = lower(order.maker)
          /\ message.tokenAddress = lower(order.tokenAddress)
          /\ message.nftAddress = lower(order.nftAddress)
          /\ message.listingTime = SmallDecimal(order.listingTime)
          /\ message.expirationTime = SmallDecimal(order.expirationTime)
          /\ message.salt = SmallDecimal(order.salt)
          /\ message.tokenAmount = order.tokenAmount
          /\ message.nftTokenId = lower(order.nftTokenId)
  /\ \A i, j \in 1..Len(signed) :
       signed[i].order # signed[j].order
         => signed[i].message # signed[j].message

\* C32: any two orders built by one service have different salts, the
\* orders of the attempts of one race among them.
C32_SaltsDiffer ==
  \A i, j \in 1..Len(built) :
    i # j => built[i].order.salt # built[j].order.salt

\* The listings answer the filter: at least one and at most 50, each of the
\* filter's category (categoryNo 0 asks for no category).
Eligible(filter, answer) ==
  /\ answer.success
  /\ Len(answer.items) \in 1..50
  /\ \A i \in 1..Len(answer.items) :
       filter.categoryNo \in {0, answer.items[i].category}

\* C33: a discovery run whose answer holds 1 to 50 listings, all of the
\* filter's category, calls place_order once, for the first listing, as a
\* market order with the confirmation set and that listing's price and
\* creation time; a run with any other answer places no order.
C33_DiscoveryPlacesFirst ==
  discovery.pc \in {"placing", "done"} =>
    IF Eligible(discovery.filter, discovery.answer)
      THEN LET first == discovery.answer.items[1]
           IN /\ Len(discovery.placed) = 1
              /\ discovery.placed[1].nft_token_id = first.token_id
              /\ discovery.placed[1].order_type = "market"
              /\ discovery.placed[1].confirm_real_order
              /\ discovery.placed[1].price_wei = first.price_wei
              /\ discovery.placed[1].created_at_ts = first.created_at_ts
      ELSE discovery.placed = <<>>

\* C34: whenever is_authenticated() is true, the cookie jar of the current
\* transport maps msu_wat and msu_wrt to the stored access and refresh
\* tokens, after any sequence of login, set_auth_cookies,
\* clear_auth_cookies, clear_auth_tokens and switch_strategy.
C34_JarFollowsTokens ==
  is_authenticated(auth_tokens) =>
    /\ {"msu_wat", "msu_wrt"} \subseteq DOMAIN cookies
    /\ cookies["msu_wat"] = auth_tokens.wat
    /\ cookies["msu_wrt"] = auth_tokens.wrt

\* C38: a switch_strategy that fails because the strategy type is
\* unsupported leaves the recorded strategy type, the strategy
\* configuration and the transport as they were before the call, the
\* transport still initialized; a successful switch leaves exactly one
\* live transport, the old one destroyed.
LiveTransports == {n \in DOMAIN strategy.sessions : strategy.sessions[n] = "open"}
SwitchFailedClean ==
  strategy.last = "failed" =>
    /\ strategy.type = strategy.before.type
    /\ strategy.config = strategy.before.config
    /\ strategy.current = strategy.before.current
    /\ strategy.sessions[strategy.current] = "open"
SwitchedOneLive ==
  strategy.last = "switched" =>
    /\ LiveTransports = {strategy.current}
    /\ strategy.current # strategy.before.current
    /\ strategy.sessions[strategy.before.current] = "none"
C38_SwitchAllOrNothing == SwitchFailedClean /\ SwitchedOneLive

\* C35: under any interleaving of a login with the attempts of a running
\* race on the same instance, every outbound request carries an msu_wat and
\* an msu_wrt cookie that come from the same login response, never the
\* access token of one login with the refresh token of another.
CarriesOnePair(p) == p.cookies \in refresh.answers
C35_CookiesFromOneLogin ==
  /\ [](\A n \in DOMAIN posts : CarriesOnePair(posts[n]))
  /\ [][ posts' # posts
           => posts'[Len(posts')].cookies
                = AuthCookies(auth_tokens.wat, auth_tokens.wrt) ]_vars
C35_Witness ==
  \E n \in DOMAIN posts, m \in DOMAIN posts :
    /\ posts[n].url = "buy" /\ posts[m].url = "buy"
    /\ posts[n].cookies = AuthCookies("wat1", "wrt1")
    /\ posts[m].cookies = AuthCookies("wat2", "wrt2")

\* C37: a login() that raises, or whose response lacks the access token or
\* the refresh token, leaves the stored tokens and the cookie jar exactly as
\* they were, so an instance authenticated before such a login is still
\* authenticated with the old tokens after it.
LacksToken(raw) == ~Truthy(raw.wat) \/ ~Truthy(raw.wrt)
LoginRaised ==
  /\ pc \in {"login_message", "login_signin"}
  /\ pc' = "idle"
  /\ result'.kind = "error"
C37_FailedLoginKeepsSession ==
  /\ [][ LoginRaised => UNCHANGED <<auth_tokens, cookies>> ]_vars
  /\ [][ \A raw \in SigninRaws :
           (LacksToken(raw) /\ login_signin_response(raw))
             => UNCHANGED <<auth_tokens, cookies>> ]_vars
C37_Witness ==
  /\ pc = "idle"
  /\ call.op = "login"
  /\ result.kind = "error"
  /\ auth_tokens = [wat |-> "wat1", wrt |-> "wrt1"]
  /\ cookies = AuthCookies("wat1", "wrt1")

\* C36: if the task running place_market_order is cancelled from outside
\* while it waits for the first attempt to finish, every launched attempt
\* is cancelled as well and none of them issues a buy submission
\* afterwards.
C36_OutsideCancelStopsRace ==
  /\ [](pc = "cancelled" => \A i \in TaskIds : ~Live(tasks[i]))
  /\ [][ pc = "cancelled" => posts' = posts ]_vars

====
